---- MODULE Spec2Model ----
(***************************************************************************)
(* A model of the queue_flex simulation engine: the load generator, the    *)
(* three load balancers (LoadBalancer, IndexAwareLoadBalancer,             *)
(* DynamicEWLoadBalancer), the dispatch policies, the latency channels,    *)
(* the MICA worker cores and the bucketed index.                           *)
(*                                                                         *)
(* Virtual time is abstracted: every simpy process step between two yields *)
(* is one atomic action, a CommChannel is a FIFO whose items first travel  *)
(* (the latency process) and are then available in the store.  The worker  *)
(* channels all have the same delay (channel_lat), so what the balancer    *)
(* puts on them arrives in the order of the puts; the AsyncIndexUpdaters   *)
(* all use the same delay too and fire in the order of their creation.     *)
(* A core suspended in in_q.get() takes an item as soon as it is in the    *)
(* store, and the run processes of a balancer are served by the input      *)
(* channel in the order of their get() calls.  Service times, arrival      *)
(* times and latencies are otherwise arbitrary.  The generator is modelled *)
(* for its first MaxReqs requests, and a request's key is identified with  *)
(* its hash.                                                               *)
(*                                                                         *)
(* Spec and SpecAll are the runs of the experiment with write batching     *)
(* off, its default, and a measured phase longer than the modelled one;    *)
(* SpecBatch turns batching on; SpecEnd and SpecEndFair have a short       *)
(* measured phase, so that the end-of-measurements marker is sent, and     *)
(* total service times that may reach the instability threshold;           *)
(* SpecIndex, SpecSelect and SpecKey drive the bucketed index, a JBSQ      *)
(* policy and a key-based policy alone, as their unit tests do;            *)
(* SpecChannel and SpecEpoch do the same for a CommChannel, with its       *)
(* virtual time, and for the EpochTracker.  SpecRlu is the run with the    *)
(* multi-version cores, SpecWorkers the run with either kind of core,      *)
(* SpecReads a run whose generator produces no write, and SpecSetup        *)
(* starts before the dispatch policy is constructed.  SpecWakeFair is the  *)
(* fair run of the plain balancer in which waiting readers are woken,      *)
(* SpecBatchWrites a run of MaxBatchReqs writes with batching on;          *)
(* SpecPolicy drives a policy of the JBSQ family alone, with its           *)
(* statistics, and SpecDefer a DeferralController alone.                   *)
(*                                                                         *)
(* A deque is a sequence whose index 1 is the deque's left end:            *)
(* appendleft(x) is <<x>> \o q, pop() removes q[Len(q)].                   *)
(***************************************************************************)
EXTENDS Integers, Sequences, FiniteSets, TLC

\* ------------------------------------------------------------ bounds
MaxCores == 2
NumBuckets == 3
MaxHash == 2
DepthLimit == 1
MaxReqs == 3

\* The requests generated in the write-only runs with batching
MaxBatchReqs == 4

Bucket_ids == 0 .. (NumBuckets - 1)
Hashes == 0 .. MaxHash

\* find_shortest_q's initial value of "smallest"
SMALLEST_INIT == 1000000000

VARIABLES
    num_queues,         \* the number of worker cores (and private queues)
    lb,                 \* which balancer class runs: "plain", "index", "dynamic"
    policy,             \* the dispatch policy object's class
    max_buckets_tracking, \* DynJBSCREWDispatchPolicy.max_buckets_tracking
    numGenerated,       \* OpenPoissonLoadGen.run: requests generated so far
    in_q,               \* the shared input channel (generator -> balancer)
    worker_qs_transit,  \* worker channels: << queue, item >> inside CommChannel.latency, oldest first
    worker_qs,          \* per core: items of the channel's store
    pull_transit,       \* pull channel: items inside CommChannel.latency
    pull_q,             \* pull channel: items of the store
    queue_length_tracking,            \* the policy's deque per core
    queues_including_processing_req,  \* the balancer's shadow deque per core
    blocked_queues,     \* IndexAwareLoadBalancer.blocked_queues, per bucket
    bucket_mappings,    \* DynJBSCREWDispatchPolicy.bucket_mappings (OrderedDict)
    jbsq_event,         \* IndexAwareLoadBalancer.jbsq_event: 0 = None, p = armed by run process p
    in_q_get_queue,     \* the run processes suspended in self.in_q.get(), first come first
    lbpc,               \* position of every balancer run process
    hand,               \* the request a run process holds while it waits
    buckets,            \* BucketedIndex.buckets (versions)
    event_waitlist,     \* BucketedIndex.event_waitlist: the cores waiting per bucket
    updaters,           \* the AsyncIndexUpdaters that have not fired yet, oldest first
    wpc,                \* position of every worker
    cur,                \* the request a worker is processing
    prev_version,       \* the version a reader recorded before its service time
    upd_finished,       \* delayed_updater.finished of the worker's current write
    event_value,        \* the value the event a worker waited on succeeded with
    use_compaction,     \* MICAIndexAccessor.use_compaction (write batching)
    batch_map,          \* per core: key -> the writes batched for it (<< >>: no batch)
    batched_write,      \* per core: run()'s local batched_write
    num_events,         \* OpenPoissonLoadGen.num_events (reqs_to_sim)
    may_be_slow,        \* whether a total service time can reach kill_sim_threshold
    gen_pc,             \* the generator: "measure", "post" (marker sent), "dead"
    killed,             \* AbstractCore.killed, per core
    measurements,       \* the measurement store: recorded values per request id
    lastFiveSTimes,     \* AbstractCore.lastFiveSTimes, per core
    end_seen,           \* per core: how often check_req_end_sim returned True
    now,                \* env.now of the channel's environment
    cc_delay,           \* CommChannel.delay
    cc_heap,            \* the scheduled events of the channel's environment
    cc_eid,             \* the environment's event counter
    cc_store,           \* CommChannel.store.items
    cc_log,             \* what the getter has received, with the time of the get
    cc_puts,            \* how many items the putter has put
    global_ts,          \* GlobalSequencer: the timestamp (epoch number)
    epoch_to_reader_map,   \* EpochTracker.epoch_to_reader_map
    waiting_writer_events, \* EpochTracker.waiting_writer_events
    rd_epoch,           \* per reader: the epoch register_reader returned, 0 = none
    qp_ending_event,    \* per writer: the event writer_synchronize_epoch returned
    cur_epoch,          \* per multi-version core: run()'s local cur_epoch
    defer_writes,       \* MultiversionMICAIndexAccessor.defer_writes
    deferral_counter,   \* DeferralController.deferral_counter
    reset_val,          \* DeferralController.reset_val
    jbsq_depth,         \* run_exp: args.jbsq_depth
    disp_policy,        \* run_exp: disp_policy, "unbound" until a constructor has returned
    stats,              \* the statistics counters of a dispatch policy driven alone
    select_ret,         \* what the last select called on that policy returned, << >> before any call
    defer_calls,        \* the calls made on a DeferralController driven alone, since its last reset
    failed              \* "none", or the assertion/exception that aborted the run

vars == << num_queues, lb, policy, max_buckets_tracking, numGenerated, in_q,
           worker_qs_transit, worker_qs, pull_transit, pull_q,
           queue_length_tracking, queues_including_processing_req,
           blocked_queues, bucket_mappings, jbsq_event, in_q_get_queue,
           lbpc, hand, buckets, event_waitlist, updaters, wpc, cur, prev_version,
           upd_finished, event_value, use_compaction, batch_map,
           batched_write, num_events, may_be_slow, gen_pc, killed,
           measurements, lastFiveSTimes, end_seen, now, cc_delay, cc_heap,
           cc_eid, cc_store, cc_log, cc_puts, global_ts, epoch_to_reader_map,
           waiting_writer_events, rd_epoch, qp_ending_event, cur_epoch,
           defer_writes, deferral_counter, reset_val, jbsq_depth,
           disp_policy, stats, select_ret, defer_calls, failed >>

\* The state of a CommChannel driven alone
channel_vars == << now, cc_delay, cc_heap, cc_eid, cc_store, cc_log, cc_puts >>

\* The state of an EpochTracker and its GlobalSequencer, with the readers
\* and writers that use them
epoch_vars == << global_ts, epoch_to_reader_map, waiting_writer_events,
                 rd_epoch, qp_ending_event >>

\* The state the multi-version cores add to the engine's, beside the
\* epoch tracker: their local epoch and the deferral controller
rlu_vars == << cur_epoch, defer_writes, deferral_counter, reset_val >>

\* What run_exp has before its simulation starts: the depth option and the
\* policy object it has constructed
setup_vars == << jbsq_depth, disp_policy >>

\* The statistics of a dispatch policy whose select and func_executed are
\* called directly, and the value its last select returned
stat_vars == << stats, select_ret >>

\* What is observed of a DeferralController whose methods are called
\* directly
ctl_vars == << defer_calls >>

\* What a CommChannel driven alone never touches
system_vars_of_channel ==
    << num_queues, lb, policy, max_buckets_tracking, numGenerated, in_q,
       worker_qs_transit, worker_qs, pull_transit, pull_q,
       queue_length_tracking, queues_including_processing_req,
       blocked_queues, bucket_mappings, jbsq_event, in_q_get_queue, lbpc,
       hand, buckets, event_waitlist, updaters, wpc, cur, prev_version,
       upd_finished, event_value, use_compaction, batch_map, batched_write,
       num_events, may_be_slow, gen_pc, killed, measurements,
       lastFiveSTimes, end_seen, setup_vars, stat_vars, ctl_vars, failed >>

\* What an EpochTracker driven alone never touches
system_vars_of_epoch ==
    << num_queues, lb, policy, max_buckets_tracking, numGenerated, in_q,
       worker_qs_transit, worker_qs, pull_transit, pull_q,
       queue_length_tracking, queues_including_processing_req,
       blocked_queues, bucket_mappings, jbsq_event, in_q_get_queue, lbpc,
       hand, buckets, event_waitlist, updaters, wpc, cur, prev_version,
       upd_finished, event_value, use_compaction, batch_map, batched_write,
       num_events, may_be_slow, gen_pc, killed, measurements,
       lastFiveSTimes, end_seen, setup_vars, stat_vars, ctl_vars >>

\* The components that are driven alone, as their unit tests drive them,
\* and what run_exp set up; no step of the simulation engine changes them
component_vars ==
    << channel_vars, epoch_vars, rlu_vars, setup_vars, stat_vars, ctl_vars >>

Cores == 0 .. (num_queues - 1)

\* ------------------------------------------------------------ requests
NoReq == [id |-> -1, h |-> 0, w |-> FALSE]

\* RPCRequest(rpc_number, k, write, predef_hash)
RPCRequest(n, hsh, write) == [id |-> n, h |-> hsh, w |-> write]

\* EndOfMeasurements(): the marker the generator sends after num_events
\* requests; isinstance(req, EndOfMeasurements) is req = EndOfMeasurements
EndOfMeasurements == [id |-> -2, h |-> 0, w |-> FALSE]

\* The ids of requests: -1 is the id of a request generated after the marker
RequestIds == -1 .. (MaxBatchReqs - 1)

\* PullFeedbackRequest(proc_num, req_completed)
PullFeedbackRequest(c, r) == [proc_id |-> c, req_completed |-> r]

hash_req_to_bucket(req, bucket_mod) == req.h % bucket_mod

is_odd(val) == (val % 2) > 0

\* deque operations
appendleft(q, x) == << x >> \o q
pop_rest(q) == SubSeq(q, 1, Len(q) - 1)
pop_item(q) == q[Len(q)]

Elems(q) == { q[i] : i \in 1 .. Len(q) }

\* ------------------------------------------------------------ policies
RECURSIVE find_shortest_scan(_, _, _, _)
find_shortest_scan(qs, qdx, smallest, shortest_q) ==
    IF qdx = num_queues
    THEN [idx |-> shortest_q, len |-> smallest]
    ELSE IF Len(qs[qdx]) < smallest
         THEN find_shortest_scan(qs, qdx + 1, Len(qs[qdx]), qdx)
         ELSE find_shortest_scan(qs, qdx + 1, smallest, shortest_q)

\* find_shortest_q that finds the smallest length but never records whose it
\* is: the answer is always queue 0 (C10 must reject this)
find_shortest_q_IndexNotRecorded(qs) ==
    [idx |-> 0, len |-> find_shortest_scan(qs, 0, SMALLEST_INIT, 0).len]

find_shortest_q(qs) == find_shortest_scan(qs, 0, SMALLEST_INIT, 0)

\* isinstance(self.dispatch_policy, JBSQDispatchPolicy)
IsJBSQFamily == policy \in {"JBSQ", "JBSCREW", "DynJBSCREW"}

no_queue_available(qlt) == find_shortest_q(qlt).len >= DepthLimit

\* The result of a select: the queue (-1: refused), the tracking deques and
\* the exclusive-bucket map after it.
SelResult(q, qlt, bm) == [q |-> q, qlt |-> qlt, bm |-> bm]

Track(qlt, qdx, req) == [qlt EXCEPT ![qdx] = appendleft(@, req)]

\* CRCWSelect whose scan replaces the shortest queue on a tie, so that the
\* last of the shortest queues is chosen (C22 must reject this)
CRCWSelect_LastShortest(req, qlt, bm) ==
    LET s == find_shortest_q(qlt)
        last == CHOOSE c \in Cores :
                    /\ Len(qlt[c]) = s.len
                    /\ \A d \in Cores : Len(qlt[d]) = s.len => d <= c
    IN  SelResult(last, Track(qlt, last, req), bm)

CRCWSelect(req, qlt, bm) ==
    LET s == find_shortest_q(qlt)
    IN  SelResult(s.idx, Track(qlt, s.idx, req), bm)

\* EREWSelect that ignores the key and balances on queue length: requests of
\* one bucket reach different cores (C14 must reject this)
EREWSelect_ShortestQueue(req, qlt, bm) ==
    LET s == find_shortest_q(qlt)
    IN  SelResult(s.idx, Track(qlt, s.idx, req), bm)

EREWSelect(req, qlt, bm) ==
    LET final_idx == hash_req_to_bucket(req, NumBuckets) % num_queues
    IN  SelResult(final_idx, Track(qlt, final_idx, req), bm)

\* CREWSelect that partitions reads like writes (C26 must reject this)
CREWSelect_ReadsHashed(req, qlt, bm) ==
    LET final_idx == hash_req_to_bucket(req, NumBuckets) % num_queues
    IN  SelResult(final_idx, Track(qlt, final_idx, req), bm)

\* CREWSelect that balances writes like reads (C21 must reject this)
CREWSelect_WritesBalanced(req, qlt, bm) ==
    LET final_idx == find_shortest_q(qlt).idx
    IN  SelResult(final_idx, Track(qlt, final_idx, req), bm)

CREWSelect(req, qlt, bm) ==
    LET final_idx == IF req.w
                     THEN hash_req_to_bucket(req, NumBuckets) % num_queues
                     ELSE find_shortest_q(qlt).idx
    IN  SelResult(final_idx, Track(qlt, final_idx, req), bm)

JBSQSelect(req, qlt, bm) ==
    LET s == find_shortest_q(qlt)
    IN  IF s.len < DepthLimit
        THEN SelResult(s.idx, Track(qlt, s.idx, req), bm)
        ELSE SelResult(-1, qlt, bm)

\* JBSCREWDispatchPolicy.select that balances writes like reads, on the
\* shortest queue (C20 must reject this)
JBSCREWSelect_WritesBalanced(req, qlt, bm) ==
    LET s == find_shortest_q(qlt)
    IN  IF s.len < DepthLimit
        THEN SelResult(s.idx, Track(qlt, s.idx, req), bm)
        ELSE SelResult(-1, qlt, bm)

JBSCREWSelect(req, qlt, bm) ==
    IF req.w
    THEN LET qdx == hash_req_to_bucket(req, NumBuckets) % num_queues
         IN  SelResult(qdx, Track(qlt, qdx, req), bm)
    ELSE LET s == find_shortest_q(qlt)
         IN  IF s.len < DepthLimit
             THEN SelResult(s.idx, Track(qlt, s.idx, req), bm)
             ELSE SelResult(-1, qlt, bm)

\* ---- dynamic CREW: the exclusive-bucket map, oldest insertion first
BucketMappingMetadata(bucket, core_num, wrs_outstanding) ==
    [bucket |-> bucket, core |-> core_num, wrs |-> wrs_outstanding]

MappedBuckets(bm) == { bm[i].bucket : i \in 1 .. Len(bm) }

MappingIndex(bm, bucket) == CHOOSE i \in 1 .. Len(bm) : bm[i].bucket = bucket

Mapping(bm, bucket) == bm[MappingIndex(bm, bucket)]

RemoveAt(s, i) == SubSeq(s, 1, i - 1) \o SubSeq(s, i + 1, Len(s))

exclusive_access_outstanding(req, bm) ==
    hash_req_to_bucket(req, NumBuckets) \in MappedBuckets(bm)

add_to_excl_bucket(bm, bucket, excl_q) ==
    LET kept == IF Len(bm) >= max_buckets_tracking THEN Tail(bm) ELSE bm
    IN  Append(kept, BucketMappingMetadata(bucket, excl_q, 1))

inc_outstanding_writes(bm, bucket) ==
    [bm EXCEPT ![MappingIndex(bm, bucket)].wrs = @ + 1]

\* write_req_finished that breaks the link on every finished write, whatever
\* the number of writes still outstanding (C32 must reject this)
write_req_finished_AlwaysReleases(bm, bucket, excl_q) ==
    IF bucket \notin MappedBuckets(bm)
    THEN [bm |-> bm, failed |-> "bucket_not_in_mappings"]
    ELSE IF Mapping(bm, bucket).core # excl_q
    THEN [bm |-> bm, failed |-> "wrong_exclusive_queue"]
    ELSE [bm |-> RemoveAt(bm, MappingIndex(bm, bucket)), failed |-> "none"]

\* write_req_finished: the map after it, or the assertion that fails
write_req_finished(bm, bucket, excl_q) ==
    IF bucket \notin MappedBuckets(bm)
    THEN [bm |-> bm, failed |-> "bucket_not_in_mappings"]
    ELSE IF Mapping(bm, bucket).core # excl_q
    THEN [bm |-> bm, failed |-> "wrong_exclusive_queue"]
    ELSE LET i == MappingIndex(bm, bucket)
         IN  IF bm[i].wrs - 1 = 0
             THEN [bm |-> RemoveAt(bm, i), failed |-> "none"]
             ELSE [bm |-> [bm EXCEPT ![i].wrs = @ - 1], failed |-> "none"]

\* DynJBSCREWSelect with the owner of a mapped bucket ignored: a following
\* write is balanced like the first one (C1 must reject this)
DynJBSCREWSelect_OwnerIgnored(req, qlt, bm) ==
    LET bucket == hash_req_to_bucket(req, NumBuckets)
        s == find_shortest_q(qlt)
    IN  IF s.len < DepthLimit
        THEN IF req.w
             THEN SelResult(s.idx, Track(qlt, s.idx, req),
                            IF exclusive_access_outstanding(req, bm)
                            THEN inc_outstanding_writes(bm, bucket)
                            ELSE add_to_excl_bucket(bm, bucket, s.idx))
             ELSE SelResult(s.idx, Track(qlt, s.idx, req), bm)
        ELSE SelResult(-1, qlt, bm)

DynJBSCREWSelect(req, qlt, bm) ==
    LET bucket == hash_req_to_bucket(req, NumBuckets)
        s == find_shortest_q(qlt)
    IN  IF exclusive_access_outstanding(req, bm)
        THEN IF req.w
             THEN LET disp_q == Mapping(bm, bucket).core
                  IN  SelResult(disp_q, Track(qlt, disp_q, req),
                                inc_outstanding_writes(bm, bucket))
             ELSE IF s.len < DepthLimit
                  THEN SelResult(s.idx, Track(qlt, s.idx, req), bm)
                  ELSE SelResult(-1, qlt, bm)
        ELSE IF s.len < DepthLimit
             THEN IF req.w
                  THEN SelResult(s.idx, Track(qlt, s.idx, req),
                                 add_to_excl_bucket(bm, bucket, s.idx))
                  ELSE SelResult(s.idx, Track(qlt, s.idx, req), bm)
             ELSE SelResult(-1, qlt, bm)

\* self.dispatch_policy.select(req)
select(req, qlt, bm) ==
    CASE policy = "CRCW" -> CRCWSelect(req, qlt, bm)
      [] policy = "EREW" -> EREWSelect(req, qlt, bm)
      [] policy = "CREW" -> CREWSelect(req, qlt, bm)
      [] policy = "JBSQ" -> JBSQSelect(req, qlt, bm)
      [] policy = "JBSCREW" -> JBSCREWSelect(req, qlt, bm)
      [] policy = "DynJBSCREW" -> DynJBSCREWSelect(req, qlt, bm)
      [] OTHER -> DynJBSCREWSelect(req, qlt, bm)


\* ------------------------------------------------------------ balancer
\* The balancer-owned state a handler reads and writes, as one record.
LBState == [qlt |-> queue_length_tracking,
            shadow |-> queues_including_processing_req,
            wqt |-> worker_qs_transit,
            bm |-> bucket_mappings,
            blocked |-> blocked_queues,
            failed |-> failed]

ApplyLB(S) ==
    /\ queue_length_tracking' = S.qlt
    /\ queues_including_processing_req' = S.shadow
    /\ worker_qs_transit' = S.wqt
    /\ bucket_mappings' = S.bm
    /\ blocked_queues' = S.blocked
    /\ failed' = S.failed

\* the_queue.put(req): the item and the worker channel it travels on
InTransit(qdx, req) == [q |-> qdx, req |-> req]

\* select_and_dispatch that places the marker like a request, on the queue
\* the policy selects (C16 must reject this)
select_and_dispatch_MarkerBalanced(S, req) ==
    LET r == select(req, S.qlt, S.bm)
    IN  IF r.q = -1
        THEN [S EXCEPT !.failed = "select_returned_minus_one"]
        ELSE [S EXCEPT !.qlt = r.qlt,
                       !.bm = r.bm,
                       !.wqt = Append(@, InTransit(r.q, req)),
                       !.shadow[r.q] = appendleft(@, req)]

\* LoadBalancer.select_and_dispatch
select_and_dispatch(S, req) ==
    IF req = EndOfMeasurements
    THEN [S EXCEPT !.wqt = Append(@, InTransit(0, req))]
    ELSE
    LET r == select(req, S.qlt, S.bm)
    IN  IF r.q = -1
        THEN [S EXCEPT !.failed = "select_returned_minus_one"]
        ELSE [S EXCEPT !.qlt = r.qlt,
                       !.bm = r.bm,
                       !.wqt = Append(@, InTransit(r.q, req)),
                       !.shadow[r.q] = appendleft(@, req)]

\* func_executed that pops the balancer's shadow deque but not the policy's
\* tracking deque (C8 must reject this)
func_executed_ShadowOnly(S, qdx) ==
    IF Len(S.shadow[qdx]) = 0
    THEN [S EXCEPT !.failed = "pop_from_empty_deque"]
    ELSE [S EXCEPT !.shadow[qdx] = pop_rest(@)]

\* func_executed that empties both deques of the core on an acknowledgement
\* (C35 must reject this)
func_executed_ClearsDeques(S, qdx) ==
    IF Len(S.shadow[qdx]) = 0 \/ Len(S.qlt[qdx]) = 0
    THEN [S EXCEPT !.failed = "pop_from_empty_deque"]
    ELSE [S EXCEPT !.shadow[qdx] = << >>, !.qlt[qdx] = << >>]

\* LoadBalancer.func_executed, with the policy's func_executed
func_executed(S, qdx) ==
    IF Len(S.shadow[qdx]) = 0 \/ Len(S.qlt[qdx]) = 0
    THEN [S EXCEPT !.failed = "pop_from_empty_deque"]
    ELSE [S EXCEPT !.shadow[qdx] = pop_rest(@), !.qlt[qdx] = pop_rest(@)]

\* LoadBalancer.update_pulls
base_update_pulls(S, pull_req) == func_executed(S, pull_req.proc_id)

\* reqs_conflict that only looks at the kind of the second request, the
\* outstanding one: a write behind an outstanding read goes through (C6 must
\* reject this)
reqs_conflict_SecondOnly(first_req, second_req, bucket_mod) ==
    /\ second_req.w
    /\ hash_req_to_bucket(first_req, bucket_mod)
         = hash_req_to_bucket(second_req, bucket_mod)

\* reqs_conflict that only sees two writes: a read never conflicts (C5 must
\* reject this)
reqs_conflict_WritesOnly(first_req, second_req, bucket_mod) ==
    /\ first_req.w /\ second_req.w
    /\ hash_req_to_bucket(first_req, bucket_mod)
         = hash_req_to_bucket(second_req, bucket_mod)

\* request_filter_lambdas.reqs_conflict
reqs_conflict(first_req, second_req, bucket_mod) ==
    /\ first_req.w \/ second_req.w
    /\ hash_req_to_bucket(first_req, bucket_mod)
         = hash_req_to_bucket(second_req, bucket_mod)

\* IndexAwareLoadBalancer.causes_conflict, over the shadow deques
causes_conflict(S, req) ==
    \E c \in Cores : \E x \in Elems(S.shadow[c]) :
        reqs_conflict(req, x, NumBuckets)

\* IndexAwareLoadBalancer.serialize_req
serialize_req(S, req, bucket, at_tail) ==
    IF at_tail
    THEN [S EXCEPT !.blocked[bucket] = appendleft(@, req)]
    ELSE [S EXCEPT !.blocked[bucket] = Append(@, req)]

RECURSIVE select_and_dispatch_from_blocked_q(_, _)
select_and_dispatch_from_blocked_q(S, bucket) ==
    IF S.failed # "none" \/ Len(S.blocked[bucket]) = 0
    THEN S
    ELSE LET req == pop_item(S.blocked[bucket])
             S1 == [S EXCEPT !.blocked[bucket] = pop_rest(@)]
             queues_full == IsJBSQFamily /\ no_queue_available(S1.qlt)
         IN  IF ~causes_conflict(S1, req) /\ ~queues_full
             THEN select_and_dispatch_from_blocked_q(
                      select_and_dispatch(S1, req), bucket)
             ELSE serialize_req(S1, req, bucket, FALSE)

\* IndexAwareLoadBalancer.update_pulls
index_update_pulls(S, pull_req) ==
    LET S1 == base_update_pulls(S, pull_req)
    IN  IF S1.failed # "none"
        THEN S1
        ELSE select_and_dispatch_from_blocked_q(
                 S1, hash_req_to_bucket(pull_req.req_completed, NumBuckets))

\* DynamicEWLoadBalancer.update_pulls
dynamic_update_pulls(S, pull_req) ==
    LET S1 == base_update_pulls(S, pull_req)
    IN  IF S1.failed # "none" \/ ~pull_req.req_completed.w
        THEN S1
        ELSE LET f == write_req_finished(
                          S1.bm,
                          hash_req_to_bucket(pull_req.req_completed, NumBuckets),
                          pull_req.proc_id)
             IN  [S1 EXCEPT !.bm = f.bm, !.failed = f.failed]

update_pulls(S, pull_req) ==
    CASE lb = "plain" -> base_update_pulls(S, pull_req)
      [] lb = "index" -> index_update_pulls(S, pull_req)
      [] OTHER -> dynamic_update_pulls(S, pull_req)

\* index_handle that serialises behind any non-empty blocked queue, not
\* only the one of the request's bucket (C7 must reject this)
index_handle_AnyBlockedQueue(S, req) ==
    LET bucket == hash_req_to_bucket(req, NumBuckets)
    IN  IF causes_conflict(S, req)
             \/ \E b \in Bucket_ids : Len(S.blocked[b]) > 0
        THEN serialize_req(S, req, bucket, TRUE)
        ELSE select_and_dispatch(S, req)

\* The body of IndexAwareLoadBalancer.run after the wait for a queue
index_handle(S, req) ==
    LET bucket == hash_req_to_bucket(req, NumBuckets)
    IN  IF causes_conflict(S, req) \/ Len(S.blocked[bucket]) > 0
        THEN serialize_req(S, req, bucket, TRUE)
        ELSE select_and_dispatch(S, req)

\* ------------------------------------------------------------ generator
\* OpenPoissonLoadGen.run resumed by its timeout (or started): one more
\* request into the input channel; after num_events requests first the
\* marker, and from then on requests with id -1.  numGenerated counts the
\* requests of both phases.  rolls: what rollHit(self.write_frac) can
\* return in gen_new_req; limit: how many requests of the run are followed.
GenerateUpTo(rolls, limit) ==
    /\ failed = "none"
    /\ gen_pc # "dead"
    /\ numGenerated < limit
    /\ \E hsh \in Hashes, write \in rolls :
           CASE gen_pc = "measure" /\ numGenerated < num_events ->
                    /\ in_q' = Append(in_q, RPCRequest(numGenerated, hsh, write))
                    /\ gen_pc' = gen_pc
             [] gen_pc = "measure" /\ numGenerated >= num_events ->
                    /\ in_q' = in_q \o << EndOfMeasurements,
                                          RPCRequest(-1, hsh, write) >>
                    /\ gen_pc' = "post"
             [] OTHER ->
                    /\ in_q' = Append(in_q, RPCRequest(-1, hsh, write))
                    /\ gen_pc' = gen_pc
    /\ numGenerated' = numGenerated + 1
    /\ UNCHANGED << num_queues, lb, policy, max_buckets_tracking,
                    worker_qs_transit, worker_qs, pull_transit, pull_q,
                    queue_length_tracking, queues_including_processing_req,
                    blocked_queues, bucket_mappings, jbsq_event,
                    in_q_get_queue, lbpc, hand, buckets, event_waitlist,
                    updaters, wpc, cur, prev_version, upd_finished, failed >>
    /\ UNCHANGED << event_value >>
    /\ UNCHANGED << use_compaction, batch_map, batched_write >>
    /\ UNCHANGED << component_vars, num_events, may_be_slow, killed, measurements, lastFiveSTimes, end_seen >>

\* The generator followed for its first MaxReqs requests
GenerateWith(rolls) == GenerateUpTo(rolls, MaxReqs)

\* The generator of a run with 0 < write_frac < 100: rollHit returns
\* either value
Generate == GenerateWith(BOOLEAN)

\* ------------------------------------------------------------ channels
\* CommChannel.latency of the pull channel
PullDeliver ==
    /\ failed = "none"
    /\ Len(pull_transit) > 0
    /\ pull_q' = Append(pull_q, Head(pull_transit))
    /\ pull_transit' = Tail(pull_transit)
    /\ UNCHANGED << num_queues, lb, policy, max_buckets_tracking, numGenerated,
                    in_q, worker_qs_transit, worker_qs, queue_length_tracking,
                    queues_including_processing_req, blocked_queues,
                    bucket_mappings, jbsq_event, in_q_get_queue, lbpc, hand,
                    buckets, event_waitlist, updaters, wpc, cur, prev_version,
                    upd_finished >>
    /\ failed' = failed
    /\ UNCHANGED << event_value >>
    /\ UNCHANGED << use_compaction, batch_map, batched_write >>
    /\ UNCHANGED << component_vars, num_events, may_be_slow, gen_pc, killed, measurements, lastFiveSTimes, end_seen >>

\* ------------------------------------------------------------ plain and dynamic-EW run
\* Where run() suspends next, from the top of its loop
LoopTopPc(S, pq) ==
    IF Len(pq) > 0 THEN "pulls"
    ELSE IF IsJBSQFamily /\ no_queue_available(S.qlt) THEN "blocked"
    ELSE "get"

\* Where run() suspends next, inside "while no_queue_available()"
BlockedPc(S) ==
    IF IsJBSQFamily /\ no_queue_available(S.qlt) THEN "blocked" ELSE "get"

\* LoadBalancer.run / DynamicEWLoadBalancer.run: pr = yield self.pull_q.get()
LBPull ==
    /\ failed = "none"
    /\ lb \in {"plain", "dynamic"}
    /\ lbpc[1] \in {"pulls", "blocked"}
    /\ Len(pull_q) > 0
    /\ LET S == update_pulls(LBState, Head(pull_q))
       IN  /\ ApplyLB(S)
           /\ lbpc' = [lbpc EXCEPT ![1] =
                          IF lbpc[1] = "pulls"
                          THEN LoopTopPc(S, Tail(pull_q))
                          ELSE BlockedPc(S)]
    /\ pull_q' = Tail(pull_q)
    /\ UNCHANGED << num_queues, lb, policy, max_buckets_tracking, numGenerated,
                    in_q, worker_qs, pull_transit, jbsq_event, in_q_get_queue,
                    hand, buckets, event_waitlist, updaters, wpc, cur,
                    prev_version, upd_finished >>
    /\ UNCHANGED << event_value >>
    /\ UNCHANGED << use_compaction, batch_map, batched_write >>
    /\ UNCHANGED << component_vars, num_events, may_be_slow, gen_pc, killed, measurements, lastFiveSTimes, end_seen >>

\* LoadBalancer.run / DynamicEWLoadBalancer.run: req = yield self.in_q.get()
LBGet ==
    /\ failed = "none"
    /\ lb \in {"plain", "dynamic"}
    /\ lbpc[1] = "get"
    /\ Len(in_q) > 0
    /\ LET S == select_and_dispatch(LBState, Head(in_q))
       IN  /\ ApplyLB(S)
           /\ lbpc' = [lbpc EXCEPT ![1] = LoopTopPc(S, pull_q)]
    /\ in_q' = Tail(in_q)
    /\ UNCHANGED << num_queues, lb, policy, max_buckets_tracking, numGenerated,
                    worker_qs, pull_transit, pull_q, jbsq_event,
                    in_q_get_queue, hand, buckets, event_waitlist, updaters,
                    wpc, cur, prev_version, upd_finished >>
    /\ UNCHANGED << event_value >>
    /\ UNCHANGED << use_compaction, batch_map, batched_write >>
    /\ UNCHANGED << component_vars, num_events, may_be_slow, gen_pc, killed, measurements, lastFiveSTimes, end_seen >>

\* ------------------------------------------------------------ bucket-serialising run
RunProcs == {1, 2}

\* IndexAwareLoadBalancer.run from "while no_queue_available() and not
\* req.getWrite()" on, for run process p holding req
index_run_step(p, req, getting) ==
    IF IsJBSQFamily /\ no_queue_available(queue_length_tracking) /\ ~req.w
    THEN /\ jbsq_event' = p
         /\ in_q_get_queue' = getting
         /\ lbpc' = [lbpc EXCEPT ![p] = "wait"]
         /\ hand' = [hand EXCEPT ![p] = req]
         /\ UNCHANGED << queue_length_tracking,
                         queues_including_processing_req, worker_qs_transit,
                         bucket_mappings, blocked_queues, failed >>
    ELSE /\ ApplyLB(index_handle(LBState, req))
         /\ lbpc' = [lbpc EXCEPT ![p] = "get"]
         /\ hand' = [hand EXCEPT ![p] = NoReq]
         /\ in_q_get_queue' = Append(getting, p)
         /\ UNCHANGED jbsq_event

\* IndexAwareLoadBalancer.run: req = yield self.in_q.get()
IdxGet(p) ==
    /\ failed = "none"
    /\ lb = "index"
    /\ lbpc[p] = "get"
    /\ Head(in_q_get_queue) = p
    /\ Len(in_q) > 0
    /\ index_run_step(p, Head(in_q), Tail(in_q_get_queue))
    /\ in_q' = Tail(in_q)
    /\ UNCHANGED << num_queues, lb, policy, max_buckets_tracking, numGenerated,
                    worker_qs, pull_transit, pull_q, buckets, event_waitlist,
                    updaters, wpc, cur, prev_version, upd_finished >>
    /\ UNCHANGED << event_value >>
    /\ UNCHANGED << use_compaction, batch_map, batched_write >>
    /\ UNCHANGED << component_vars, num_events, may_be_slow, gen_pc, killed, measurements, lastFiveSTimes, end_seen >>

\* IndexAwareLoadBalancer.run: resumed after "yield self.jbsq_event"
IdxResume(p) ==
    /\ failed = "none"
    /\ lb = "index"
    /\ lbpc[p] = "woken"
    /\ index_run_step(p, hand[p], in_q_get_queue)
    /\ UNCHANGED << num_queues, lb, policy, max_buckets_tracking, numGenerated,
                    in_q, worker_qs, pull_transit, pull_q, buckets,
                    event_waitlist, updaters, wpc, cur, prev_version,
                    upd_finished >>
    /\ UNCHANGED << event_value >>
    /\ UNCHANGED << use_compaction, batch_map, batched_write >>
    /\ UNCHANGED << component_vars, num_events, may_be_slow, gen_pc, killed, measurements, lastFiveSTimes, end_seen >>

\* IndexAwareLoadBalancer.pull_queue_updater: pr = yield self.pull_q.get()
IdxPull ==
    /\ failed = "none"
    /\ lb = "index"
    /\ Len(pull_q) > 0
    /\ ApplyLB(update_pulls(LBState, Head(pull_q)))
    /\ pull_q' = Tail(pull_q)
    /\ lbpc' = IF jbsq_event # 0
               THEN [lbpc EXCEPT ![jbsq_event] = "woken"]
               ELSE lbpc
    /\ jbsq_event' = 0
    /\ UNCHANGED << num_queues, lb, policy, max_buckets_tracking, numGenerated,
                    in_q, in_q_get_queue, worker_qs, pull_transit, hand,
                    buckets, event_waitlist, updaters, wpc, cur, prev_version,
                    upd_finished >>
    /\ UNCHANGED << event_value >>
    /\ UNCHANGED << use_compaction, batch_map, batched_write >>
    /\ UNCHANGED << component_vars, num_events, may_be_slow, gen_pc, killed, measurements, lastFiveSTimes, end_seen >>


\* ------------------------------------------------------------ index
\* BucketedIndex.inc_index_version that counts down (C29 must reject this)
inc_index_version_Down(bk, bucket_num) == [bk EXCEPT ![bucket_num] = @ - 1]

\* BucketedIndex.inc_index_version
inc_index_version(bk, bucket_num) == [bk EXCEPT ![bucket_num] = @ + 1]

\* AsyncIndexUpdater(env, bindex, bucket, INDEX_UPDATE_DELAY), created by core c;
\* first: the updater whose "finished" do_write_process asserts
AsyncIndexUpdater(bucket, c, first) ==
    [idx_to_update |-> bucket, core |-> c, first |-> first]

\* The value of an event that has not succeeded
NoValue == << -1, -1 >>

\* succeed_event_for_bucket that triggers the bucket's waiters but clears the
\* waiter list of every bucket (C13 must reject this)
succeed_event_for_bucket_ClearsAll(ew, bk, bucket_num) ==
    [woken |-> ew[bucket_num],
     value |-> << bucket_num, bk[bucket_num] >>,
     ew |-> [b \in Bucket_ids |-> {}]]

\* succeed_event_for_bucket that clears the bucket's waiter list without
\* triggering the events on it (C33 must reject this)
succeed_event_for_bucket_NoTrigger(ew, bk, bucket_num) ==
    [woken |-> {},
     value |-> << bucket_num, bk[bucket_num] >>,
     ew |-> [ew EXCEPT ![bucket_num] = {}]]

\* BucketedIndex.succeed_event_for_bucket: the waiters it triggers, the value
\* it triggers them with, and the waitlists after it
succeed_event_for_bucket(ew, bk, bucket_num) ==
    [woken |-> ew[bucket_num],
     value |-> << bucket_num, bk[bucket_num] >>,
     ew |-> [ew EXCEPT ![bucket_num] = {}]]

\* The waiters of a succeed_event_for_bucket resume with its value
ApplySucceed(s) ==
    /\ wpc' = [c \in Cores |-> IF c \in s.woken THEN "woken" ELSE wpc[c]]
    /\ event_value' = [c \in Cores |->
                          IF c \in s.woken THEN s.value ELSE event_value[c]]
    /\ event_waitlist' = s.ew

\* AsyncIndexUpdater.run after its timeout: inc_index_version, then
\* succeed_event_for_bucket wakes and removes every waiter of the bucket
AsyncFire ==
    /\ failed = "none"
    /\ Len(updaters) > 0
    /\ LET u == Head(updaters)
           b == u.idx_to_update
       IN  /\ buckets' = inc_index_version(buckets, b)
           /\ ApplySucceed(succeed_event_for_bucket(
                               event_waitlist, buckets', b))
           /\ upd_finished' = IF u.first
                              THEN [upd_finished EXCEPT ![u.core] = TRUE]
                              ELSE upd_finished
    /\ updaters' = Tail(updaters)
    /\ UNCHANGED << num_queues, lb, policy, max_buckets_tracking, numGenerated,
                    in_q, worker_qs_transit, worker_qs, pull_transit, pull_q,
                    queue_length_tracking, queues_including_processing_req,
                    blocked_queues, bucket_mappings, jbsq_event,
                    in_q_get_queue, lbpc, hand, cur, prev_version, failed >>
    /\ UNCHANGED << use_compaction, batch_map, batched_write >>
    /\ UNCHANGED << component_vars, num_events, may_be_slow, gen_pc, killed, measurements, lastFiveSTimes, end_seen >>

\* ------------------------------------------------------------ workers
\* The disp_policy string and disregard_conf flag the cores are built with
WorkerPath ==
    CASE policy = "EREW" -> "EREW"
      [] policy = "JBSQ" -> "disregard_conf"
      [] OTHER -> "concurrent"

\* datastore_rpc.init_or_append
init_or_append(d, k, v) == [d EXCEPT ![k] = Append(@, v)]

\* MICAIndexAccessor.form_new_batch_logic: key_matcher over the items of the
\* core's store (a request's key is identified with its hash)
form_new_batch_logic(store, req_key) ==
    \E e \in Elems(store) : e # EndOfMeasurements /\ e.h = req_key

\* MICAIndexAccessor.close_batch_logic; deadline_near stands for
\* "now + 1.5 * serv_time >= batch_completion_time[key]"
close_batch_logic(store, key, deadline_near) ==
    \/ deadline_near
    \/ ~ \E e \in Elems(store) : e # EndOfMeasurements /\ e.h = key

\* MICAIndexAccessor.run from "first_version = get_index_version(index)"
\* for the request rpc of core c, up to the next yield; store: the items of
\* the core's store, bmap: the batch maps before this step
worker_enter(c, rpc, store, bmap) ==
    LET index == hash_req_to_bucket(rpc, NumBuckets)
        batching == /\ WorkerPath = "concurrent"
                    /\ ~is_odd(buckets[index])
                    /\ rpc.w
                    /\ use_compaction
        absorbed == batching /\ bmap[c][rpc.h] # << >>
        formed == batching /\ ~absorbed /\ form_new_batch_logic(store, rpc.h)
    IN  IF absorbed \/ formed
        THEN \* the write joins a batch and costs compaction_time
            /\ batch_map' = [bmap EXCEPT ![c] = init_or_append(@, rpc.h, rpc)]
            /\ batched_write' = [batched_write EXCEPT ![c] = TRUE]
            /\ wpc' = [wpc EXCEPT ![c] = IF absorbed THEN "compaction_absorb"
                                                     ELSE "compaction_new"]
            /\ UNCHANGED << buckets, event_waitlist, updaters, prev_version,
                            upd_finished, failed >>
        ELSE
            /\ batch_map' = bmap
            /\ batched_write' = [batched_write EXCEPT ![c] = FALSE]
            /\ CASE WorkerPath = "EREW" ->
                      IF is_odd(buckets[index])
                      THEN /\ failed' = "erew_version_odd"
                           /\ UNCHANGED << wpc, buckets, event_waitlist, updaters,
                                           prev_version, upd_finished >>
                      ELSE /\ wpc' = [wpc EXCEPT ![c] =
                                         IF rpc.w THEN "erew_write" ELSE "service"]
                           /\ buckets' = IF rpc.w
                                         THEN inc_index_version(buckets, index)
                                         ELSE buckets
                           /\ UNCHANGED << event_waitlist, updaters, prev_version,
                                           upd_finished, failed >>
                 [] WorkerPath = "disregard_conf" ->
                      /\ wpc' = [wpc EXCEPT ![c] = "service"]
                      /\ UNCHANGED << buckets, event_waitlist, updaters, prev_version,
                                      upd_finished, failed >>
                 [] OTHER ->
                      IF is_odd(buckets[index])
                      THEN \* yield self.bindex.get_event_for_increment(env, index)
                           /\ wpc' = [wpc EXCEPT ![c] = "spin"]
                           /\ event_waitlist' =
                                  [event_waitlist EXCEPT ![index] = @ \cup {c}]
                           /\ UNCHANGED << buckets, updaters, prev_version,
                                           upd_finished, failed >>
                      ELSE IF rpc.w
                      THEN \* do_write_process: the first delayed updater, then the service time
                           /\ wpc' = [wpc EXCEPT ![c] = "write_service"]
                           /\ updaters' = Append(updaters,
                                                 AsyncIndexUpdater(index, c, TRUE))
                           /\ upd_finished' = [upd_finished EXCEPT ![c] = FALSE]
                           /\ UNCHANGED << buckets, event_waitlist, prev_version,
                                           failed >>
                      ELSE /\ wpc' = [wpc EXCEPT ![c] = "read_service"]
                           /\ prev_version' =
                                  [prev_version EXCEPT ![c] = buckets[index]]
                           /\ UNCHANGED << buckets, event_waitlist, updaters,
                                           upd_finished, failed >>

\* AbstractCore.endSimGraceful without the interrupt: the generator keeps
\* producing after worker 0 took the marker (C18 must reject this)
endSimGraceful_NoInterrupt(c) ==
    /\ gen_pc' = gen_pc
    /\ killed' = [killed EXCEPT ![c] = TRUE]

\* AbstractCore.endSimGraceful: the generator is interrupted, the core is
\* killed
endSimGraceful(c) ==
    /\ gen_pc' = "dead"
    /\ killed' = [killed EXCEPT ![c] = TRUE]

\* AbstractCore.endSimUnstable: the master interrupts the generator, the
\* core is killed
endSimUnstable(c) ==
    /\ gen_pc' = IF c = 0 THEN "dead" ELSE gen_pc
    /\ killed' = [killed EXCEPT ![c] = TRUE]

\* MICAIndexAccessor.run: rpc = yield self.in_q.get() returns rpc
\* For the marker check_req_end_sim calls endSimGraceful (the generator is
\* interrupted, the core is killed) and the loop ends.
worker_begin(c, rpc, store, bmap) ==
    IF rpc = EndOfMeasurements
    THEN /\ endSimGraceful(c)
         /\ end_seen' = [end_seen EXCEPT ![c] = @ + 1]
         /\ wpc' = [wpc EXCEPT ![c] = "done"]
         /\ cur' = [cur EXCEPT ![c] = NoReq]
         /\ batch_map' = bmap
         /\ UNCHANGED << batched_write, buckets, event_waitlist, updaters,
                         prev_version, upd_finished, failed >>
    ELSE /\ cur' = [cur EXCEPT ![c] = rpc]
         /\ worker_enter(c, rpc, store, bmap)
         /\ UNCHANGED << gen_pc, killed, end_seen >>

\* MICAIndexAccessor.run taking the newest item of its store instead of the
\* oldest (C28 must reject this)
worker_next_req_Newest(c, bmap) ==
    IF ~killed[c] /\ Len(worker_qs[c]) > 0
    THEN /\ worker_begin(c, worker_qs[c][Len(worker_qs[c])],
                         pop_rest(worker_qs[c]), bmap)
         /\ worker_qs' = [worker_qs EXCEPT ![c] = pop_rest(@)]
    ELSE /\ wpc' = [wpc EXCEPT ![c] = IF killed[c] THEN "done" ELSE "idle"]
         /\ cur' = [cur EXCEPT ![c] = NoReq]
         /\ batch_map' = bmap
         /\ batched_write' = [batched_write EXCEPT ![c] = FALSE]
         /\ UNCHANGED << worker_qs, buckets, event_waitlist, updaters,
                         prev_version, upd_finished, gen_pc, killed, end_seen,
                         failed >>

\* MICAIndexAccessor.run at the top of its loop: the core takes the next item
\* of its store, or suspends in get() (its local batched_write is dead then)
worker_next_req(c, bmap) ==
    IF ~killed[c] /\ Len(worker_qs[c]) > 0
    THEN /\ worker_begin(c, Head(worker_qs[c]), Tail(worker_qs[c]), bmap)
         /\ worker_qs' = [worker_qs EXCEPT ![c] = Tail(@)]
    ELSE /\ wpc' = [wpc EXCEPT ![c] = IF killed[c] THEN "done" ELSE "idle"]
         /\ cur' = [cur EXCEPT ![c] = NoReq]
         /\ batch_map' = bmap
         /\ batched_write' = [batched_write EXCEPT ![c] = FALSE]
         /\ UNCHANGED << worker_qs, buckets, event_waitlist, updaters,
                         prev_version, upd_finished, gen_pc, killed, end_seen,
                         failed >>

\* AbstractCore.kill_sim_threshold
kill_sim_threshold == 1000000

\* The total service times a completion can record
TotalTimes == IF may_be_slow THEN {1, kill_sim_threshold} ELSE {1}

\* AbstractCore.putSTime
putSTime(times, time) ==
    LET appended == Append(times, time)
    IN  IF Len(appended) >= 5 THEN Tail(appended) ELSE appended

\* AbstractCore.checkTimeOverThreshold
checkTimeOverThreshold(item) == item >= kill_sim_threshold

\* AbstractCore.isSimulationUnstable
isSimulationUnstable(times) ==
    \A i \in 1 .. Len(times) : checkTimeOverThreshold(times[i])

\* req_completion_logic finds the run unstable: the core is the master and
\* its recorded times, this one included, are all over the threshold
FoundUnstable(c, total_time) ==
    c = 0 /\ isSimulationUnstable(putSTime(lastFiveSTimes[c], total_time))

\* MICAIndexAccessor.req_completion_logic of request rpc at core c: the
\* measurement, putSTime, endSimUnstable (the generator is interrupted, the
\* core is killed), the pull-feedback message
req_completion_logic(c, rpc, total_time) ==
    /\ measurements' = [measurements EXCEPT ![rpc.id] = @ + 1]
    /\ lastFiveSTimes' = [lastFiveSTimes EXCEPT ![c] = putSTime(@, total_time)]
    /\ pull_transit' = Append(pull_transit, PullFeedbackRequest(c, rpc))

\* CommChannel.latency of a worker channel: the delay is over, store.put;
\* a core suspended in in_q.get() receives the item at once
ChannelDeliver ==
    /\ failed = "none"
    /\ Len(worker_qs_transit) > 0
    /\ worker_qs_transit' = Tail(worker_qs_transit)
    /\ LET c == Head(worker_qs_transit).q
           req == Head(worker_qs_transit).req
       IN  IF wpc[c] = "idle"
           THEN /\ worker_begin(c, req, << >>, batch_map)
                /\ UNCHANGED worker_qs
           ELSE /\ worker_qs' = [worker_qs EXCEPT ![c] = Append(@, req)]
                /\ UNCHANGED << buckets, event_waitlist, updaters, wpc, cur,
                                prev_version, upd_finished, batch_map,
                                batched_write, gen_pc, killed, end_seen,
                                failed >>
    /\ UNCHANGED << num_queues, lb, policy, max_buckets_tracking, numGenerated,
                    in_q, pull_transit, pull_q, queue_length_tracking,
                    queues_including_processing_req, blocked_queues,
                    bucket_mappings, jbsq_event, in_q_get_queue, lbpc, hand >>
    /\ UNCHANGED << event_value >>
    /\ UNCHANGED << use_compaction >>
    /\ UNCHANGED << component_vars, num_events, may_be_slow, measurements, lastFiveSTimes >>

\* MICAIndexAccessor.run: resumed by the bucket's increment event
WorkerWake(c) ==
    /\ failed = "none"
    /\ wpc[c] = "woken"
    /\ event_value' = [event_value EXCEPT ![c] = NoValue]
    /\ worker_enter(c, cur[c], worker_qs[c], batch_map)
    /\ UNCHANGED << num_queues, lb, policy, max_buckets_tracking, numGenerated,
                    in_q, worker_qs_transit, worker_qs, pull_transit, pull_q,
                    queue_length_tracking, queues_including_processing_req,
                    blocked_queues, bucket_mappings, jbsq_event,
                    in_q_get_queue, lbpc, hand, cur >>
    /\ UNCHANGED << use_compaction >>
    /\ UNCHANGED << component_vars, num_events, may_be_slow, gen_pc, killed, measurements, lastFiveSTimes, end_seen >>

\* The end of a write's service time without the second delayed updater: the
\* bucket is never marked even again (C11 must reject this)
WriteServiceEnd_NoSecondUpdater(c) ==
    /\ failed = "none"
    /\ wpc[c] = "write_service"
    /\ upd_finished[c]
    /\ wpc' = [wpc EXCEPT ![c] = "overhead"]
    /\ UNCHANGED << num_queues, lb, policy, max_buckets_tracking, numGenerated,
                    in_q, worker_qs_transit, worker_qs, pull_transit, pull_q,
                    queue_length_tracking, queues_including_processing_req,
                    blocked_queues, bucket_mappings, jbsq_event,
                    in_q_get_queue, lbpc, hand, buckets, event_waitlist, cur,
                    prev_version, upd_finished, updaters, failed >>
    /\ UNCHANGED << event_value >>
    /\ UNCHANGED << use_compaction, batch_map, batched_write >>
    /\ UNCHANGED << component_vars, num_events, may_be_slow, gen_pc, killed, measurements, lastFiveSTimes, end_seen >>

\* do_write_process after its service time: the assertion on the first
\* updater, then the second delayed updater; req_completion_logic starts
WriteServiceEnd(c) ==
    /\ failed = "none"
    /\ wpc[c] = "write_service"
    /\ IF upd_finished[c]
       THEN /\ updaters' = Append(updaters,
                   AsyncIndexUpdater(hash_req_to_bucket(cur[c], NumBuckets),
                                     c, FALSE))
            /\ wpc' = [wpc EXCEPT ![c] = "overhead"]
            /\ failed' = failed
       ELSE /\ failed' = "async_update_not_done"
            /\ UNCHANGED << updaters, wpc >>
    /\ UNCHANGED << num_queues, lb, policy, max_buckets_tracking, numGenerated,
                    in_q, worker_qs_transit, worker_qs, pull_transit, pull_q,
                    queue_length_tracking, queues_including_processing_req,
                    blocked_queues, bucket_mappings, jbsq_event,
                    in_q_get_queue, lbpc, hand, buckets, event_waitlist, cur,
                    prev_version, upd_finished >>
    /\ UNCHANGED << event_value >>
    /\ UNCHANGED << use_compaction, batch_map, batched_write >>
    /\ UNCHANGED << component_vars, num_events, may_be_slow, gen_pc, killed, measurements, lastFiveSTimes, end_seen >>

\* The optimistic read after its service time: re-check the version
ReadServiceEnd(c) ==
    /\ failed = "none"
    /\ wpc[c] = "read_service"
    /\ wpc' = [wpc EXCEPT ![c] =
                  IF prev_version[c] #
                       buckets[hash_req_to_bucket(cur[c], NumBuckets)]
                  THEN "service"
                  ELSE "overhead"]
    /\ UNCHANGED << num_queues, lb, policy, max_buckets_tracking, numGenerated,
                    in_q, worker_qs_transit, worker_qs, pull_transit, pull_q,
                    queue_length_tracking, queues_including_processing_req,
                    blocked_queues, bucket_mappings, jbsq_event,
                    in_q_get_queue, lbpc, hand, buckets, event_waitlist,
                    updaters, cur, prev_version, upd_finished, failed >>
    /\ UNCHANGED << event_value >>
    /\ UNCHANGED << use_compaction, batch_map, batched_write >>
    /\ UNCHANGED << component_vars, num_events, may_be_slow, gen_pc, killed, measurements, lastFiveSTimes, end_seen >>

\* A service time that nothing follows but req_completion_logic (the
\* aborted read's retry, an EREW read, a worker that disregards conflicts),
\* or the service time of an EREW write, which ends with the second increment
ServiceEnd(c) ==
    /\ failed = "none"
    /\ wpc[c] \in {"service", "erew_write"}
    /\ buckets' = IF wpc[c] = "erew_write"
                  THEN inc_index_version(
                           buckets, hash_req_to_bucket(cur[c], NumBuckets))
                  ELSE buckets
    /\ wpc' = [wpc EXCEPT ![c] = "overhead"]
    /\ UNCHANGED << num_queues, lb, policy, max_buckets_tracking, numGenerated,
                    in_q, worker_qs_transit, worker_qs, pull_transit, pull_q,
                    queue_length_tracking, queues_including_processing_req,
                    blocked_queues, bucket_mappings, jbsq_event,
                    in_q_get_queue, lbpc, hand, event_waitlist, updaters, cur,
                    prev_version, upd_finished, failed >>
    /\ UNCHANGED << event_value >>
    /\ UNCHANGED << use_compaction, batch_map, batched_write >>
    /\ UNCHANGED << component_vars, num_events, may_be_slow, gen_pc, killed, measurements, lastFiveSTimes, end_seen >>

\* req_completion_logic after the overhead: the pull-feedback message; the
\* core then takes the next item of its private queue, or suspends in get().
\* When the request was the last of a batch, respond_to_batched_writes
\* deletes the batch first.
Complete(c) ==
    /\ failed = "none"
    /\ wpc[c] = "overhead"
    /\ \E total_time \in TotalTimes :
          LET bmap == IF batched_write[c]
                      THEN [batch_map EXCEPT ![c][cur[c].h] = << >>]
                      ELSE batch_map
          IN  /\ req_completion_logic(c, cur[c], total_time)
              /\ IF FoundUnstable(c, total_time)
                 THEN /\ endSimUnstable(c)
                      /\ wpc' = [wpc EXCEPT ![c] = "done"]
                      /\ cur' = [cur EXCEPT ![c] = NoReq]
                      /\ batch_map' = bmap
                      /\ batched_write' = [batched_write EXCEPT ![c] = FALSE]
                      /\ UNCHANGED << worker_qs, buckets, event_waitlist,
                                      updaters, prev_version, upd_finished,
                                      end_seen, failed >>
                 ELSE worker_next_req(c, bmap)
    /\ UNCHANGED << num_queues, lb, policy, max_buckets_tracking, numGenerated,
                    in_q, worker_qs_transit, pull_q, queue_length_tracking,
                    queues_including_processing_req, blocked_queues,
                    bucket_mappings, jbsq_event, in_q_get_queue, lbpc, hand >>
    /\ UNCHANGED << event_value >>
    /\ UNCHANGED << use_compaction >>
    /\ UNCHANGED << component_vars, num_events, may_be_slow >>

\* ------------------------------------------------------------ write batching
\* MICAIndexAccessor.run after "yield self.env.timeout(self.compaction_time)":
\* a write that opened a batch goes on to the next request; one that joined
\* a batch closes it (respond_to_batched_writes starts with the completion of
\* the first batched write) or goes on as well
CompactionEnd(c) ==
    /\ failed = "none"
    /\ wpc[c] \in {"compaction_new", "compaction_absorb"}
    /\ \E deadline_near \in BOOLEAN :
          IF /\ wpc[c] = "compaction_absorb"
             /\ close_batch_logic(worker_qs[c], cur[c].h, deadline_near)
          THEN /\ wpc' = [wpc EXCEPT ![c] = "batch_overhead"]
               /\ UNCHANGED << cur, worker_qs, batch_map, batched_write,
                               buckets, event_waitlist, updaters, prev_version,
                               upd_finished, gen_pc, killed, end_seen,
                               failed >>
          ELSE worker_next_req(c, batch_map)
    /\ UNCHANGED << num_queues, lb, policy, max_buckets_tracking, numGenerated,
                    in_q, worker_qs_transit, pull_transit, pull_q,
                    queue_length_tracking, queues_including_processing_req,
                    blocked_queues, bucket_mappings, jbsq_event,
                    in_q_get_queue, lbpc, hand, event_value, use_compaction >>
    /\ UNCHANGED << component_vars, num_events, may_be_slow, measurements, lastFiveSTimes >>

\* respond_to_batched_writes: the req_completion_logic of a batched write
\* other than the last ends; after the last of them do_write_process starts
\* for the final request of the batch, the one the core holds
BatchOverheadEnd(c) ==
    /\ failed = "none"
    /\ wpc[c] = "batch_overhead"
    /\ LET key == cur[c].h
           batched_list == batch_map[c][key]
       IN  /\ \E total_time \in TotalTimes :
                  /\ req_completion_logic(c, Head(batched_list), total_time)
                  /\ IF FoundUnstable(c, total_time)
                     THEN endSimUnstable(c)
                     ELSE UNCHANGED << gen_pc, killed >>
           /\ batch_map' = [batch_map EXCEPT ![c][key] = Tail(@)]
           /\ IF Len(batched_list) = 2
              THEN /\ wpc' = [wpc EXCEPT ![c] = "write_service"]
                   /\ updaters' = Append(updaters,
                          AsyncIndexUpdater(hash_req_to_bucket(cur[c], NumBuckets),
                                            c, TRUE))
                   /\ upd_finished' = [upd_finished EXCEPT ![c] = FALSE]
              ELSE UNCHANGED << wpc, updaters, upd_finished >>
    /\ UNCHANGED << num_queues, lb, policy, max_buckets_tracking, numGenerated,
                    in_q, worker_qs_transit, worker_qs, pull_q,
                    queue_length_tracking, queues_including_processing_req,
                    blocked_queues, bucket_mappings, jbsq_event,
                    in_q_get_queue, lbpc, hand, buckets, event_waitlist, cur,
                    prev_version, event_value, use_compaction, batched_write,
                    failed >>
    /\ UNCHANGED << component_vars, num_events, may_be_slow, end_seen >>

\* ------------------------------------------------------------ specifications
\* The (balancer, policy) pairs a run is built with
PlainPolicies == {"CREW", "JBSQ", "JBSCREW"}
IndexPolicies == {"CREW", "JBSCREW", "JBSQ"}

CoreCounts == 1 .. MaxCores

\* << balancer, policy, number of cores, max_buckets_tracking >>
Configs ==
    ({"plain"} \X PlainPolicies \X CoreCounts \X {1})
      \cup ({"index"} \X IndexPolicies \X CoreCounts \X {1})
      \cup { << "dynamic", "DynJBSCREW", n, m >> :
                 n \in CoreCounts, m \in 1 .. (MaxCores * DepthLimit) }

InitSystem(cfgs) ==
    /\ \E cfg \in cfgs :
           /\ lb = cfg[1]
           /\ policy = cfg[2]
           /\ num_queues = cfg[3]
           /\ max_buckets_tracking = cfg[4]
           /\ lbpc = [p \in RunProcs |->
                         IF p = 1 \/ cfg[1] = "index" THEN "get" ELSE "none"]
           /\ in_q_get_queue = IF cfg[1] = "index" THEN << 1, 2 >> ELSE << 1 >>
    /\ numGenerated = 0
    /\ in_q = << >>
    /\ worker_qs_transit = << >>
    /\ worker_qs = [c \in Cores |-> << >>]
    /\ pull_transit = << >>
    /\ pull_q = << >>
    /\ queue_length_tracking = [c \in Cores |-> << >>]
    /\ queues_including_processing_req = [c \in Cores |-> << >>]
    /\ blocked_queues = [b \in Bucket_ids |-> << >>]
    /\ bucket_mappings = << >>
    /\ jbsq_event = 0
    /\ hand = [p \in RunProcs |-> NoReq]
    /\ buckets = [b \in Bucket_ids |-> 0]
    /\ event_waitlist = [b \in Bucket_ids |-> {}]
    /\ updaters = << >>
    /\ wpc = [c \in Cores |-> "idle"]
    /\ cur = [c \in Cores |-> NoReq]
    /\ prev_version = [c \in Cores |-> 0]
    /\ upd_finished = [c \in Cores |-> FALSE]
    /\ event_value = [c \in Cores |-> NoValue]
    /\ batch_map = [c \in Cores |-> [k \in Hashes |-> << >>]]
    /\ batched_write = [c \in Cores |-> FALSE]
    /\ gen_pc = "measure"
    /\ killed = [c \in Cores |-> FALSE]
    /\ measurements = [i \in RequestIds |-> 0]
    /\ lastFiveSTimes = [c \in Cores |-> << >>]
    /\ end_seen = [c \in Cores |-> 0]
    /\ jbsq_depth = DepthLimit
    /\ disp_policy = policy
    /\ failed = "none"

\* A CommChannel that nothing has been put on
ChannelIdle ==
    /\ now = 0
    /\ cc_delay = 0
    /\ cc_heap = {}
    /\ cc_eid = 0
    /\ cc_store = << >>
    /\ cc_log = << >>
    /\ cc_puts = 0

\* An epoch tracker nobody uses: EpochTracker.__init__ with
\* GlobalSequencer(initial_value=1)
EpochTrackerIdle ==
    /\ global_ts = 1
    /\ epoch_to_reader_map = << >>
    /\ waiting_writer_events = << >>
    /\ rd_epoch = << >>
    /\ qp_ending_event = << >>

\* No multi-version core exists
MultiversionIdle ==
    /\ cur_epoch = << >>
    /\ defer_writes = FALSE
    /\ deferral_counter = 0
    /\ reset_val = 0

\* The counters a DynJBSCREWDispatchPolicy or JBSCREWDispatchPolicy starts
\* with; JBSQDispatchPolicy has none, and its record stays at this value
NoStats ==
    [balanced_writes |-> 0, excl_writes |-> 0, balanced_reads |-> 0,
     linearized_reads |-> 0, bucket_load_counter |-> [b \in Bucket_ids |-> 0]]

\* No select has been called on a policy driven alone
PolicyIdle ==
    /\ stats = NoStats
    /\ select_ret = << >>

\* The calls made on a DeferralController since it was constructed: no
\* reset_defer, and no check_defer has returned
NoCalls == [reset |-> FALSE, arg |-> -1, rets |-> << >>]

\* No method has been called on a DeferralController driven alone
ControllerIdle == defer_calls = NoCalls

\* The components driven alone, and the multi-version cores, are not in use
ComponentsIdle ==
    /\ ChannelIdle /\ EpochTrackerIdle /\ MultiversionIdle
    /\ PolicyIdle /\ ControllerIdle

InitWith(cfgs) == InitSystem(cfgs) /\ ComponentsIdle

\* use_compaction is False (the default), the run is longer than the
\* modelled prefix, no total service time reaches kill_sim_threshold
DefaultOptions ==
    /\ use_compaction = FALSE
    /\ num_events = MaxReqs + 1
    /\ may_be_slow = FALSE

Init == InitWith(Configs) /\ DefaultOptions

WorkerNext ==
    \/ ChannelDeliver
    \/ PullDeliver
    \/ AsyncFire
    \/ \E c \in Cores : WorkerWake(c)
    \/ \E c \in Cores : WriteServiceEnd(c)
    \/ \E c \in Cores : ReadServiceEnd(c)
    \/ \E c \in Cores : ServiceEnd(c)
    \/ \E c \in Cores : Complete(c)

Next ==
    \/ Generate
    \/ LBPull
    \/ LBGet
    \/ \E p \in RunProcs : IdxGet(p)
    \/ \E p \in RunProcs : IdxResume(p)
    \/ IdxPull
    \/ WorkerNext

Spec == Init /\ [][Next]_vars

\* The key-based policies that never refuse, built with the plain balancer
KeyPolicies == {"CRCW", "EREW"}

AllConfigs == Configs \cup ({"plain"} \X KeyPolicies \X CoreCounts \X {1})

\* Every run the experiment script can build
InitAll == InitWith(AllConfigs) /\ DefaultOptions

SpecAll == InitAll /\ [][Next]_vars

\* ------------------------------------------------------------ observations
Bucket(req) == hash_req_to_bucket(req, NumBuckets)

\* Requests on their way to core c, waiting in its store, or being executed by it
InTransitTo(c) ==
    { worker_qs_transit[i].req :
          i \in { j \in 1 .. Len(worker_qs_transit) : worker_qs_transit[j].q = c } }

Executing(c) == IF wpc[c] \in {"idle", "done"} THEN {} ELSE {cur[c]}

AtCore(c) == InTransitTo(c) \cup Elems(worker_qs[c]) \cup Executing(c)

\* Acknowledgements the balancer has not processed yet
PendingAcks == Elems(pull_transit) \cup Elems(pull_q)

AcksFrom(c) == { a \in PendingAcks : a.proc_id = c }

\* Dispatched and not yet acknowledged to the balancer
Outstanding ==
    UNION { AtCore(c) : c \in Cores } \cup { a.req_completed : a \in PendingAcks }

\* Requests the tracking deques hold
Tracked == UNION { Elems(queue_length_tracking[c]) : c \in Cores }

\* The requests this step dispatches to core c
NewlyTracked(c) == Elems(queue_length_tracking'[c]) \ Tracked

\* ------------------------------------------------------------ C1
\* C1: under the dynamic-CREW policy, while a bucket has an entry in the
\* exclusive-bucket map with owner o and a positive count, every write to
\* that bucket which select dispatches goes to core o.
C1_WritesFollowOwner ==
    [][ policy = "DynJBSCREW" =>
          \A c \in Cores : \A r \in NewlyTracked(c) :
              ( /\ r.w
                /\ Bucket(r) \in MappedBuckets(bucket_mappings)
                /\ Mapping(bucket_mappings, Bucket(r)).wrs > 0 )
              => c = Mapping(bucket_mappings, Bucket(r)).core ]_vars

\* A second write has followed the first to the owner, which is now above
\* the depth limit while another core is idle.
C1_Witness ==
    /\ policy = "DynJBSCREW"
    /\ \E i \in 1 .. Len(bucket_mappings) :
          /\ bucket_mappings[i].wrs >= 2
          /\ Len(queue_length_tracking[bucket_mappings[i].core]) > DepthLimit
          /\ \E c \in Cores : Len(queue_length_tracking[c]) = 0

\* ------------------------------------------------------------ C2
OutstandingWrites(b) == { r \in Outstanding : r.w /\ Bucket(r) = b }

\* C2: under the dynamic-CREW policy, for every map capacity and every
\* arrival sequence, a bucket has a map entry exactly while at least one
\* write to it is dispatched and unacknowledged, the entry's count is the
\* number of those writes, and the assertions of write_req_finished hold.
C2_MapTracksOutstandingWrites ==
    policy = "DynJBSCREW" =>
        /\ failed \notin {"bucket_not_in_mappings", "wrong_exclusive_queue"}
        /\ \A b \in Bucket_ids :
              /\ b \in MappedBuckets(bucket_mappings) <=> OutstandingWrites(b) # {}
              /\ b \in MappedBuckets(bucket_mappings) =>
                    Mapping(bucket_mappings, b).wrs = Cardinality(OutstandingWrites(b))

\* ------------------------------------------------------------ C3
\* Taken from the input channel by the balancer and not dispatched yet:
\* serialised in a blocked queue, or held by a run process that waits on
\* jbsq_event.  Request ids are the order of arrival on the input channel.
Held ==
    UNION { Elems(blocked_queues[b]) : b \in Bucket_ids }
        \cup { hand[p] : p \in { q \in RunProcs : hand[q] # NoReq } }

\* C3: the bucket-serialising balancer, with CREW or a JBSQ-bounded policy,
\* dispatches the requests of one bucket in the order in which they were
\* taken from the input channel: when a request is dispatched, no earlier
\* request of its bucket is still held.
C3_BucketOrderPreserved ==
    [][ lb = "index" =>
          \A c \in Cores : \A r \in NewlyTracked(c) : \A q \in Held' :
              Bucket(q) = Bucket(r) => q.id > r.id ]_vars

\* ------------------------------------------------------------ C4
\* Every dispatched request has completed and its acknowledgement has been
\* processed; nothing is on its way to the balancer and no run process
\* holds a request: no update_pulls, hence no drain, can follow.
AllAcknowledged ==
    /\ failed = "none"
    /\ Outstanding = {}
    /\ in_q = << >>
    /\ \A p \in RunProcs : hand[p] = NoReq

\* C4: under the bucket-serialising balancer (CREW or JBSQ-bounded CREW),
\* if the workers complete and acknowledge what they receive, every request
\* placed in a blocked queue is eventually dispatched: once everything that
\* was dispatched has been acknowledged, nothing is left in a blocked queue.
C4_BlockedEventuallyDispatched ==
    (lb = "index" /\ policy \in {"CREW", "JBSCREW"} /\ AllAcknowledged)
        => \A b \in Bucket_ids : blocked_queues[b] = << >>

\* ------------------------------------------------------------ C5
\* Core c is in the service period of a read
ReadInService(c) == wpc[c] \in {"read_service", "service"} /\ ~cur[c].w

\* A write to r's bucket that arrived before r is dispatched and not completed
EarlierWriteIncomplete(r) ==
    \E c \in Cores : \E x \in AtCore(c) :
        x.w /\ Bucket(x) = Bucket(r) /\ x.id < r.id

NoReadDuringEarlierWrite ==
    \A c \in Cores : ReadInService(c) => ~EarlierWriteIncomplete(cur[c])

\* C5 as stated: under CREW dispatch, with the plain or the bucket-serialising
\* balancer, once a write to bucket b is dispatched, no read to b that arrived
\* after it is in its service period before the write has completed.
C5_Original ==
    (policy = "CREW" /\ lb \in {"plain", "index"}) => NoReadDuringEarlierWrite

\* C5 amended: under the bucket-serialising balancer, once a write to bucket
\* b is dispatched, no read to b that arrived after it is in its service
\* period before the write has completed.
C5_SerialisedReadAfterWrite ==
    lb = "index" => NoReadDuringEarlierWrite

\* A read is in its service period on a bucket that an earlier write, now
\* completed, has modified (the version went through a whole update).
C5_Witness ==
    /\ lb = "index"
    /\ \E c \in Cores :
          /\ ReadInService(c)
          /\ buckets[Bucket(cur[c])] >= 2
          /\ cur[c].id > 0

\* ------------------------------------------------------------ C6
\* Two requests of one bucket of which at least one is a write
Conflicting(x, y) == x # y /\ Bucket(x) = Bucket(y) /\ (x.w \/ y.w)

\* C6: under the bucket-serialising balancer, the requests dispatched and not
\* yet acknowledged never include two requests of the same bucket of which
\* at least one is a write.
C6_NoConflictingPairOutstanding ==
    lb = "index" =>
        \A x \in Outstanding : \A y \in Outstanding : ~Conflicting(x, y)

\* A request is serialised behind an outstanding write of its bucket while
\* another request is outstanding too.
C6_Witness ==
    /\ lb = "index"
    /\ \E x \in Outstanding :
          /\ x.w
          /\ blocked_queues[Bucket(x)] # << >>
          /\ \E y \in Outstanding : y # x

\* ------------------------------------------------------------ C7
\* The request at the head of a blocked queue: the next one it releases
BlockedHead(b) == blocked_queues[b][Len(blocked_queues[b])]

\* The requests this step serialises in the blocked queue of bucket b
NewlyBlocked(b) == Elems(blocked_queues'[b]) \ Elems(blocked_queues[b])

\* C7: under the bucket-serialising balancer with CREW, a request is never
\* held because of requests of another bucket: it is serialised, in the
\* blocked queue of its own bucket, only if a conflicting request of that
\* bucket is outstanding or that blocked queue is non-empty, and while a
\* blocked queue is non-empty its head conflicts with an outstanding request
\* of the same bucket.
C7_HeldOnlyByOwnBucket ==
    /\ []( (lb = "index" /\ policy = "CREW") =>
             \A b \in Bucket_ids :
                 blocked_queues[b] # << >> =>
                     \E x \in Outstanding : Conflicting(BlockedHead(b), x) )
    /\ [][ (lb = "index" /\ policy = "CREW") =>
             \A b \in Bucket_ids : \A r \in NewlyBlocked(b) :
                 /\ Bucket(r) = b
                 /\ \/ \E x \in Outstanding : Conflicting(r, x)
                    \/ blocked_queues[b] # << >> ]_vars

\* Bucket b is serialised behind its writer while a request of another
\* bucket that arrived later than the blocked one has been dispatched.
C7_Witness ==
    /\ lb = "index"
    /\ policy = "CREW"
    /\ \E b \in Bucket_ids :
          /\ blocked_queues[b] # << >>
          /\ \E x \in Outstanding :
                Bucket(x) # b /\ x.id > BlockedHead(b).id

\* ------------------------------------------------------------ C8
\* Items of core c's private channel: still in its latency, or in its store
InPrivateChannel(c) == Cardinality(InTransitTo(c)) + Len(worker_qs[c])

NumExecuting(c) == IF wpc[c] \in {"idle", "done"} THEN 0 ELSE 1

\* C8 as stated: for every core, at every instant, the length of its tracking
\* deque equals the number of requests waiting in its private channel plus
\* one if the core is executing a request.
C8_Original ==
    \A c \in Cores :
        Len(queue_length_tracking[c]) = InPrivateChannel(c) + NumExecuting(c)

\* C8 amended: for every core, at every instant, the length of its tracking
\* deque equals the number of requests in its private channel, plus one if
\* the core is executing a request, plus the number of its completions whose
\* acknowledgement the balancer has not processed yet.
C8_TrackingConservation ==
    \A c \in Cores :
        Len(queue_length_tracking[c])
            = InPrivateChannel(c) + NumExecuting(c) + Cardinality(AcksFrom(c))

\* A core executes a request while an earlier completion of its own is still
\* unacknowledged and another request waits in its private channel.
C8_Witness ==
    \E c \in Cores :
        /\ NumExecuting(c) = 1
        /\ AcksFrom(c) # {}
        /\ InPrivateChannel(c) > 0

\* ------------------------------------------------------------ C9
\* C9: in every balancer variant that runs a JBSQ-family policy, select is
\* never asked to place a request when it would return -1: the assertion of
\* select_and_dispatch never fails.
C9_SelectNeverRefuses ==
    IsJBSQFamily => failed # "select_returned_minus_one"

\* ------------------------------------------------------------ C10
\* The dispatches a JBSQ-family select bounds: reads, and under plain JBSQ
\* every request
Bounded(r) == ~r.w \/ policy = "JBSQ"

\* C10: under JBSQ(D), JBSCREW and dynamic-CREW a read (under plain JBSQ any
\* request) is dispatched only to a core whose tracked length is below D, so
\* the core tracks at most D requests once it has it; and a tracked length
\* exceeds D only through writes: without writes no tracked length exceeds D.
C10_ReadsWithinDepth ==
    /\ [][ IsJBSQFamily =>
             \A c \in Cores : \A r \in NewlyTracked(c) :
                 Bounded(r) => Len(queue_length_tracking'[c]) <= DepthLimit ]_vars
    /\ []( IsJBSQFamily =>
             \A c \in Cores :
                 Len(queue_length_tracking[c]) > DepthLimit =>
                     \E x \in Elems(queue_length_tracking[c]) : x.w )

\* Every core is at the depth limit, one of them with a read, and the next
\* read waits in the input channel.
C10_Witness ==
    /\ IsJBSQFamily
    /\ \A c \in Cores : Len(queue_length_tracking[c]) >= DepthLimit
    /\ \E c \in Cores : \E x \in Elems(queue_length_tracking[c]) : ~x.w
    /\ in_q # << >>
    /\ ~Head(in_q).w

\* ------------------------------------------------------------ C11
\* Core c is between the start and the end of a write's service period
WriteInProgress(c) == wpc[c] \in {"write_service", "erew_write"}

\* No write is in progress and no delayed index update is pending
Quiescent ==
    /\ updaters = << >>
    /\ \A c \in Cores : ~WriteInProgress(c)

\* C11: at every quiescent instant (no write in progress at any worker and
\* no delayed index update pending) every bucket's version is even.
C11_QuiescentVersionsEven ==
    Quiescent => \A b \in Bucket_ids : ~is_odd(buckets[b])

\* Two writes to one bucket have completed, both their delayed updates have
\* fired, and nothing is being written.
C11_Witness ==
    /\ Quiescent
    /\ \E b \in Bucket_ids : buckets[b] >= 4

\* ------------------------------------------------------------ C12
\* Core c holds bucket b as a writer: it is in the service period of a write to b
HoldsAsWriter(c, b) == WriteInProgress(c) /\ Bucket(cur[c]) = b

\* C12: at every instant a bucket's version is odd if and only if some
\* worker holds the bucket as a writer, and a reader starts its service
\* period only while the version is even (the version it records at the
\* start is even); under every dispatch policy, CRCW included.
C12_OddIffWriterHolds ==
    /\ \A b \in Bucket_ids :
          is_odd(buckets[b]) <=> \E c \in Cores : HoldsAsWriter(c, b)
    /\ \A c \in Cores :
          wpc[c] = "read_service" => ~is_odd(prev_version[c])

\* ------------------------------------------------------------ the index under its tests
\* The versions the test processes drive a bucket through
MaxVersion == 4

\* What the processes of test_index_accessor never touch
system_vars ==
    << num_queues, lb, policy, max_buckets_tracking, numGenerated, in_q,
       worker_qs_transit, worker_qs, pull_transit, pull_q,
       queue_length_tracking, queues_including_processing_req,
       blocked_queues, bucket_mappings, jbsq_event, in_q_get_queue, lbpc,
       hand, updaters, prev_version, upd_finished, use_compaction,
       batch_map, batched_write, num_events, may_be_slow, gen_pc, killed,
       measurements, lastFiveSTimes, end_seen, component_vars, failed >>

\* tests.writer: the first increment, which must make the version odd
writer_inc1(b) ==
    /\ ~is_odd(buckets[b])
    /\ buckets[b] < MaxVersion
    /\ buckets' = inc_index_version(buckets, b)
    /\ UNCHANGED << system_vars, event_waitlist, event_value, wpc, cur >>

\* tests.writer after its timeout: the second increment, then
\* succeed_event_for_bucket
writer_inc2(b) ==
    /\ is_odd(buckets[b])
    /\ buckets' = inc_index_version(buckets, b)
    /\ ApplySucceed(succeed_event_for_bucket(event_waitlist, buckets', b))
    /\ UNCHANGED << system_vars, cur >>

\* tests.event_reader: process c finds bucket b odd and waits for its event
event_reader(c, b) ==
    /\ wpc[c] = "idle"
    /\ is_odd(buckets[b])
    /\ wpc' = [wpc EXCEPT ![c] = "spin"]
    /\ cur' = [cur EXCEPT ![c] = RPCRequest(-1, b, FALSE)]
    /\ event_waitlist' = [event_waitlist EXCEPT ![b] = @ \cup {c}]
    /\ UNCHANGED << system_vars, buckets, event_value >>

\* tests.event_reader resumed by its event: it waits again if the bucket is
\* odd and passes otherwise
event_reader_resume(c) ==
    /\ wpc[c] = "woken"
    /\ event_value' = [event_value EXCEPT ![c] = NoValue]
    /\ IF is_odd(buckets[Bucket(cur[c])])
       THEN /\ wpc' = [wpc EXCEPT ![c] = "spin"]
            /\ event_waitlist' =
                   [event_waitlist EXCEPT ![Bucket(cur[c])] = @ \cup {c}]
            /\ cur' = cur
       ELSE /\ wpc' = [wpc EXCEPT ![c] = "idle"]
            /\ cur' = [cur EXCEPT ![c] = NoReq]
            /\ event_waitlist' = event_waitlist
    /\ UNCHANGED << system_vars, buckets >>

NextIndex ==
    \/ \E b \in Bucket_ids : writer_inc1(b)
    \/ \E b \in Bucket_ids : writer_inc2(b)
    \/ \E c \in Cores, b \in Bucket_ids : event_reader(c, b)
    \/ \E c \in Cores : event_reader_resume(c)

\* A BucketedIndex, MaxCores reader processes and one writer per bucket
InitIndex == InitWith({ << "plain", "CRCW", MaxCores, 1 >> }) /\ DefaultOptions

SpecIndex == InitIndex /\ [][NextIndex]_vars

\* ------------------------------------------------------------ C13
\* This step marks bucket b even
MarkedEven(b) == buckets'[b] = buckets[b] + 1 /\ ~is_odd(buckets'[b])

\* The waiters of a bucket
Waiters(b) == event_waitlist[b]

\* C13: when a writer marks bucket b even, every waiter registered on b is
\* triggered with (b, new version) and removed, so b's waiter list is empty
\* immediately afterwards, and no waiter registered on another bucket is
\* triggered or removed; a waiter is on one list only and a triggered waiter
\* on none, so it is triggered exactly once.
C13_WaitersOfBucketWokenOnce ==
    /\ []( \A c \in Cores :
             /\ wpc[c] = "spin" =>
                   \A b \in Bucket_ids : c \in Waiters(b) <=> b = Bucket(cur[c])
             /\ wpc[c] # "spin" => \A b \in Bucket_ids : c \notin Waiters(b) )
    /\ [][ \A b \in Bucket_ids :
             MarkedEven(b) =>
                 /\ event_waitlist'[b] = {}
                 /\ \A c \in Waiters(b) :
                       /\ wpc'[c] = "woken"
                       /\ event_value'[c] = << b, buckets'[b] >>
                 /\ \A b2 \in Bucket_ids \ {b} :
                       /\ event_waitlist'[b2] = event_waitlist[b2]
                       /\ \A c \in Waiters(b2) :
                             /\ wpc'[c] = "spin"
                             /\ event_value'[c] = event_value[c] ]_vars

\* A waiter of bucket b has been triggered with b's new, even version and
\* b's list is empty, while another process still waits on a different bucket.
C13_Witness ==
    \E c \in Cores, b \in Bucket_ids :
        /\ wpc[c] = "woken"
        /\ event_value[c] = << b, buckets[b] >>
        /\ ~is_odd(buckets[b])
        /\ Waiters(b) = {}
        /\ \E d \in Cores \ {c} , b2 \in Bucket_ids \ {b} : d \in Waiters(b2)

\* ------------------------------------------------------------ C14
\* C14: under EREW dispatch with the workers on the EREW path (policy and
\* index with the same number of buckets), the version a worker reads when
\* it starts a request is even, so its evenness assertion never fails: the
\* bucket of a read in service is even, the bucket of a write in service is
\* odd through the writer's own increment.
C14_ErewStartsOnEvenVersion ==
    policy = "EREW" =>
        /\ failed # "erew_version_odd"
        /\ \A c \in Cores :
              /\ wpc[c] = "service" => ~is_odd(buckets[Bucket(cur[c])])
              /\ wpc[c] = "erew_write" => is_odd(buckets[Bucket(cur[c])])

\* A core has started a request on a bucket that an earlier write of its own
\* has modified, while the other core is writing another bucket.
C14_Witness ==
    /\ policy = "EREW"
    /\ \E c \in Cores, d \in Cores :
          /\ c # d
          /\ wpc[c] \in {"service", "erew_write"}
          /\ cur[c].id > 0
          /\ buckets[Bucket(cur[c])] >= 2
          /\ wpc[d] = "erew_write"

\* ------------------------------------------------------------ runs with write batching
\* The runs whose workers take the concurrent path
BatchConfigs ==
    ({"plain"} \X {"CRCW", "CREW", "JBSCREW"} \X CoreCounts \X {1})
      \cup { << "dynamic", "DynJBSCREW", n, MaxCores * DepthLimit >> :
                 n \in CoreCounts }

NextBatch ==
    \/ Generate
    \/ LBPull
    \/ LBGet
    \/ WorkerNext
    \/ \E c \in Cores : CompactionEnd(c)
    \/ \E c \in Cores : BatchOverheadEnd(c)

InitBatch ==
    /\ InitWith(BatchConfigs)
    /\ use_compaction = TRUE
    /\ num_events = MaxReqs + 1
    /\ may_be_slow = FALSE

SpecBatch == InitBatch /\ [][NextBatch]_vars

\* ------------------------------------------------------------ C15
\* The writes a core has absorbed into batches and not completed
Batched(c) == UNION { Elems(batch_map[c][k]) : k \in Hashes }

\* Nothing is scheduled any more: the generator has produced its requests,
\* every channel is empty, every core is suspended in get() and no delayed
\* update is pending
RunDrained ==
    /\ failed = "none"
    /\ numGenerated = MaxReqs
    /\ in_q = << >>
    /\ worker_qs_transit = << >>
    /\ pull_transit = << >>
    /\ pull_q = << >>
    /\ updaters = << >>
    /\ \A c \in Cores : wpc[c] = "idle" /\ worker_qs[c] = << >>

\* C15: with write batching enabled, every write a worker absorbs into a
\* batch is eventually completed (recorded and acknowledged), even if no
\* further request for its key reaches the worker: once the run has drained,
\* no batch holds an uncompleted write.
C15_BatchedWritesCompleted ==
    RunDrained => \A c \in Cores : Batched(c) = {}

\* ------------------------------------------------------------ runs that end
\* The runs of the experiment script: the plain balancer with every policy,
\* the dynamic-EW balancer with its own
EndConfigs ==
    ({"plain"} \X {"CRCW", "EREW", "CREW", "JBSQ", "JBSCREW"}
               \X CoreCounts \X {1})
      \cup { << "dynamic", "DynJBSCREW", n, MaxCores * DepthLimit >> :
                 n \in CoreCounts }

\* reqs_to_sim is small enough for the marker and the requests that follow
\* it to be generated; in the runs with the shortest measured phase a total
\* service time may reach the threshold
InitEnd ==
    /\ InitWith(EndConfigs)
    /\ use_compaction = FALSE
    /\ num_events \in 1 .. (MaxReqs - 1)
    /\ may_be_slow \in BOOLEAN
    /\ may_be_slow => num_events = 1

NextEnd ==
    \/ Generate
    \/ LBPull
    \/ LBGet
    \/ WorkerNext

SpecEnd == InitEnd /\ [][NextEnd]_vars

\* ------------------------------------------------------------ C16
\* How many markers a channel holds
MarkerCount(q) == Cardinality({ i \in 1 .. Len(q) : q[i] = EndOfMeasurements })

\* Markers on their way to core c or in its store
MarkersAt(c) ==
    Cardinality({ i \in 1 .. Len(worker_qs_transit) :
                      worker_qs_transit[i] = InTransit(c, EndOfMeasurements) })
      + MarkerCount(worker_qs[c])

\* Markers emitted so far: still in a channel, or observed by a worker
MarkersEmitted ==
    MarkerCount(in_q)
      + MarkersAt(0) + end_seen[0]
      + (IF num_queues > 1 THEN MarkersAt(1) + end_seen[1] ELSE 0)

RunEndedGracefully ==
    /\ failed = "none"
    /\ end_seen[0] = 1
    /\ ~ ENABLED NextEnd

\* C17: with reqs_to_sim = k and batching disabled, by the end of a run
\* that worker 0 ended on the marker the latency store holds exactly k
\* measurements: each of the k requests generated before the marker is
\* recorded once, and no request generated after it (id -1) is recorded.
C17_ExactlyKMeasurements ==
    RunEndedGracefully =>
        /\ \A i \in 0 .. (num_events - 1) : measurements[i] = 1
        /\ \A i \in RequestIds \ (0 .. (num_events - 1)) : measurements[i] = 0


\* ---------------------------------------------------------------------
\* C19: the instability check of the master

\* The master ended the run through endSimUnstable: it is killed without
\* having taken the marker
DeclaredUnstable == killed[0] /\ end_seen[0] = 0

\* C19: the master declares the run unstable only when its five most
\* recent completions all had a total service time at or over the
\* threshold; fewer than five consecutive such completions never trigger
\* it.  putSTime keeps the master's latest times and drops the oldest one
\* when the list reaches five, so a list shorter than four means the master
\* has completed fewer than four requests: at a declaration the list must
\* be full and every time in it over the threshold.
C19_UnstableOnlyAfterFiveSlow ==
    DeclaredUnstable =>
        /\ Len(lastFiveSTimes[0]) >= 4
        /\ \A i \in 1 .. Len(lastFiveSTimes[0]) :
               checkTimeOverThreshold(lastFiveSTimes[0][i])


\* ---------------------------------------------------------------------
\* C18: termination

\* The policies of the runs checked for termination: the plain balancer
\* with an exclusive-writer policy and with a bounded one, which makes it
\* wait for pull feedback
FairPolicies == {"EREW", "JBSCREW"}

\* The runs checked for termination: the plain balancer with two cores,
\* the dynamic-EW balancer with one, the shortest measured phase, total
\* service times that may or may not reach the threshold
InitEndFair ==
    /\ InitEnd
    /\ \/ policy \in FairPolicies /\ num_queues = MaxCores
       \/ lb = "dynamic" /\ num_queues = 1
    /\ num_events = 1
    /\ may_be_slow

\* env.run() processes the next event of the heap as long as there is one
SpecEndFair == InitEndFair /\ [][NextEnd]_vars /\ WF_vars(NextEnd)

\* The event heap is empty: no process can take another step
HeapEmpty == ~ ENABLED NextEnd

\* The run is over: the heap is empty after the generator was interrupted,
\* or an assertion of the code has aborted the run
Terminated == failed # "none" \/ (gen_pc = "dead" /\ HeapEmpty)

\* The generator puts nothing on the balancer's queue in this step
NothingGenerated == numGenerated' = numGenerated

TestRequests == { RPCRequest(0, hsh, write) : hsh \in Hashes, write \in BOOLEAN }

\* The longest tracking deque the test builds
MaxTracked == DepthLimit + 2

\* What the policy test never touches
policy_vars ==
    << num_queues, lb, policy, max_buckets_tracking, numGenerated, in_q,
       worker_qs_transit, worker_qs, pull_transit, pull_q,
       queues_including_processing_req, blocked_queues, bucket_mappings,
       jbsq_event, in_q_get_queue, lbpc, hand, buckets, event_waitlist,
       updaters, wpc, cur, prev_version, upd_finished, event_value,
       use_compaction, batch_map, batched_write, num_events, may_be_slow,
       gen_pc, killed, measurements, lastFiveSTimes, end_seen,
       component_vars, failed >>

\* test_jbscrew_lb: jbscrew_policy.select(req), whatever it returns
test_select(req) ==
    /\ \A c \in Cores : Len(queue_length_tracking[c]) < MaxTracked
    /\ queue_length_tracking' =
           JBSCREWSelect(req, queue_length_tracking, bucket_mappings).qlt
    /\ UNCHANGED policy_vars

\* test_jbscrew_lb: jbscrew_policy.func_executed(c_id, f_type) for a core
\* that has a tracked request, which pops the oldest one
test_func_executed(c_id) ==
    /\ Len(queue_length_tracking[c_id]) > 0
    /\ queue_length_tracking' =
           [queue_length_tracking EXCEPT ![c_id] = pop_rest(@)]
    /\ UNCHANGED policy_vars

NextSelect ==
    \/ \E req \in TestRequests : test_select(req)
    \/ \E c \in Cores : test_func_executed(c)

\* The jbscrew_policy fixture: the policy over 1 .. MaxCores queues
InitSelect ==
    /\ InitWith({"plain"} \X {"JBSCREW"} \X CoreCounts \X {1})
    /\ DefaultOptions

SpecSelect == InitSelect /\ [][NextSelect]_vars

\* The length of the shortest tracking deque
ShortestLen ==
    CHOOSE n \in 0 .. MaxTracked :
        /\ \E c \in Cores : Len(queue_length_tracking[c]) = n
        /\ \A c \in Cores : Len(queue_length_tracking[c]) >= n

\* The lowest-index core among those with the shortest tracking deque
LowestShortest ==
    CHOOSE c \in Cores :
        /\ Len(queue_length_tracking[c]) = ShortestLen
        /\ \A d \in Cores :
               Len(queue_length_tracking[d]) = ShortestLen => c <= d

\* The tracking deques after req was added to core c's, as its newest entry
TrackedAt(c, req) ==
    [d \in Cores |-> IF d = c THEN << req >> \o queue_length_tracking[d]
                     ELSE queue_length_tracking[d]]

\* C20: JBSCREWDispatchPolicy.select returns, for a write, the core
\* (hash mod B) mod C whatever the queue lengths, and for a read the
\* lowest-index core among those with the shortest tracked queue when that
\* length is below D and -1 otherwise; a successful selection adds the
\* request to the chosen core's tracking deque and changes no other deque,
\* a refused one changes none.
C20_JBSCREWSelectResult ==
    \A req \in TestRequests :
        LET r == JBSCREWSelect(req, queue_length_tracking, bucket_mappings)
            home == (req.h % NumBuckets) % num_queues
        IN  /\ req.w => r.q = home /\ r.qlt = TrackedAt(home, req)
            /\ (~ req.w /\ ShortestLen < DepthLimit) =>
                   r.q = LowestShortest /\ r.qlt = TrackedAt(LowestShortest, req)
            /\ (~ req.w /\ ShortestLen >= DepthLimit) =>
                   r.q = -1 /\ r.qlt = queue_length_tracking

\* select has put a write on a core whose tracked queue was already at the
\* depth limit, next to a read it accepted, while every queue is full: a
\* read would now be refused
C20_Witness ==
    /\ num_queues = MaxCores
    /\ ShortestLen >= DepthLimit
    /\ \E c \in Cores :
           /\ Len(queue_length_tracking[c]) > DepthLimit
           /\ queue_length_tracking[c][1].w
    /\ \E c \in Cores : \E i \in 1 .. Len(queue_length_tracking[c]) :
           ~ queue_length_tracking[c][i].w


\* ---------------------------------------------------------------------
\* C21, C22: the key-based policies, driven as test_key_dispatches drives
\* them: a policy object alone, select called on it directly, and
\* func_executed whenever a core has a tracked request

\* What is tracked by the key-based policies of the test
TestKeyPolicies == {"CRCW", "EREW", "CREW"}

\* dispatcher: dp.select(req), for CRCWDispatchPolicy, EREWDispatchPolicy
\* or CREWDispatchPolicy
KeySelect(req, qlt) ==
    CASE policy = "CRCW" -> CRCWSelect(req, qlt, bucket_mappings)
      [] policy = "EREW" -> EREWSelect(req, qlt, bucket_mappings)
      [] OTHER -> CREWSelect(req, qlt, bucket_mappings)

test_key_select(req) ==
    /\ \A c \in Cores : Len(queue_length_tracking[c]) < MaxTracked
    /\ queue_length_tracking' = KeySelect(req, queue_length_tracking).qlt
    /\ UNCHANGED policy_vars

\* KeyDispatchPolicy.func_executed for a core that has a tracked request
test_key_func_executed(q_id) ==
    /\ Len(queue_length_tracking[q_id]) > 0
    /\ queue_length_tracking' =
           [queue_length_tracking EXCEPT ![q_id] = pop_rest(@)]
    /\ UNCHANGED policy_vars

NextKey ==
    \/ \E req \in TestRequests : test_key_select(req)
    \/ \E c \in Cores : test_key_func_executed(c)

\* The policy objects of the test fixtures, over 1 .. MaxCores queues
InitKey ==
    /\ InitWith({"plain"} \X TestKeyPolicies \X CoreCounts \X {1})
    /\ DefaultOptions

SpecKey == InitKey /\ [][NextKey]_vars

\* select is keyed for this request: any request under EREW, a write under
\* CREW
Keyed(req) == policy = "EREW" \/ (policy = "CREW" /\ req.w)

\* C21: the queue id returned by EREW select for any request, and by CREW
\* select for any write, is (hash mod B) mod C whatever the tracked queue
\* lengths, the earlier selections and the request's id; selecting the same
\* request again returns the same queue id.
C21_KeyedSelectDependsOnHashOnly ==
    \A req \in TestRequests :
        Keyed(req) =>
            LET r == KeySelect(req, queue_length_tracking)
                again == KeySelect(req, r.qlt)
            IN  /\ r.q = (req.h % NumBuckets) % num_queues
                /\ again.q = r.q
                /\ \A i \in RequestIds :
                       KeySelect([req EXCEPT !.id = i],
                                 queue_length_tracking).q = r.q

\* EREW has put a read on its hashed core, as the newest entry of a tracked
\* queue of two or more, while another core's tracked queue is empty
C21_Witness ==
    /\ policy = "EREW"
    /\ \E c \in Cores : \E d \in Cores :
           /\ Len(queue_length_tracking[c]) >= 2
           /\ ~ queue_length_tracking[c][1].w
           /\ Len(queue_length_tracking[d]) = 0


\* Select balances this request on queue length: any request under CRCW, a
\* read under CREW
Balanced(req) == policy = "CRCW" \/ (policy = "CREW" /\ ~ req.w)

\* C22: CRCW select for any request, and CREW select for any read, returns
\* a core whose tracked queue length is minimal over all cores, and among
\* the cores of that minimal length the one with the lowest index.
C22_BalancedSelectLowestShortest ==
    \A req \in TestRequests :
        Balanced(req) =>
            LET q == KeySelect(req, queue_length_tracking).q
            IN  /\ q \in Cores
                /\ \A d \in Cores :
                       /\ Len(queue_length_tracking[q]) <=
                              Len(queue_length_tracking[d])
                       /\ Len(queue_length_tracking[d]) =
                              Len(queue_length_tracking[q]) => q <= d

\* CREW has sent a read to the last core because the core before it
\* already tracked a request, and a later read to the first core on a tie
C22_Witness ==
    /\ policy = "CREW"
    /\ num_queues = MaxCores
    /\ Len(queue_length_tracking[0]) = 2
    /\ ~ queue_length_tracking[0][1].w
    /\ Len(queue_length_tracking[MaxCores - 1]) = 1
    /\ ~ queue_length_tracking[MaxCores - 1][1].w


\* ---------------------------------------------------------------------
\* C23: a CommChannel alone, with a putter and a getter process as in
\* test_channel_get_put.  The environment's heap is explicit here: an event
\* is processed when no other event is before it, and events are ordered by
\* time, then urgent before normal, then by the order of their scheduling.

MaxPuts == 3
MaxTime == 2
MaxDelay == 2

\* An item the putter puts: its number and the time of the put
Item(n, t) == [n |-> n, t |-> t]

\* A scheduled event of the environment
Event(time, urgent, eid, kind, v) ==
    [time |-> time, urgent |-> urgent, eid |-> eid, kind |-> kind, v |-> v]

\* The order in which the environment processes its events
Before(e, f) ==
    \/ e.time < f.time
    \/ /\ e.time = f.time
       /\ \/ e.urgent /\ ~ f.urgent
          \/ e.urgent = f.urgent /\ e.eid < f.eid

NextEvent == CHOOSE e \in cc_heap : \A f \in cc_heap \ {e} : Before(e, f)

\* CommChannel.latency that puts the value in the store without waiting
\* (C23 must reject this)
latency_timeout_NoDelay(e) ==
    Event(e.time, FALSE, cc_eid, "timeout", e.v)

\* CommChannel.latency, yield self.env.timeout(self.delay): the event the
\* process waits for
latency_timeout(e) ==
    Event(e.time + cc_delay, FALSE, cc_eid, "timeout", e.v)

\* CommChannel.put: a latency process is created; its start is an urgent
\* event of the current time
cc_put ==
    /\ cc_puts < MaxPuts
    /\ cc_heap' = cc_heap \cup
           { Event(now, TRUE, cc_eid, "init", Item(cc_puts, now)) }
    /\ cc_eid' = cc_eid + 1
    /\ cc_puts' = cc_puts + 1
    /\ UNCHANGED << now, cc_delay, cc_store, cc_log >>
    /\ UNCHANGED << system_vars_of_channel, epoch_vars, rlu_vars >>

\* The environment processes its next event: a latency process starts and
\* waits for its timeout, or its timeout is over and it puts the value in
\* the store
env_step ==
    /\ cc_heap # {}
    /\ LET e == NextEvent
       IN  /\ now' = e.time
           /\ IF e.kind = "init"
              THEN /\ cc_heap' = (cc_heap \ {e}) \cup { latency_timeout(e) }
                   /\ cc_eid' = cc_eid + 1
                   /\ UNCHANGED cc_store
              ELSE /\ cc_heap' = cc_heap \ {e}
                   /\ cc_store' = Append(cc_store, e.v)
                   /\ UNCHANGED cc_eid
    /\ UNCHANGED << cc_delay, cc_log, cc_puts >>
    /\ UNCHANGED << system_vars_of_channel, epoch_vars, rlu_vars >>

\* CommChannel.get by the getter, when the store has an item
cc_get ==
    /\ Len(cc_store) > 0
    /\ cc_log' = Append(cc_log, [v |-> Head(cc_store), at |-> now])
    /\ cc_store' = Tail(cc_store)
    /\ UNCHANGED << now, cc_delay, cc_heap, cc_eid, cc_puts >>
    /\ UNCHANGED << system_vars_of_channel, epoch_vars, rlu_vars >>

\* A timeout of the putter or the getter is the next event: time passes
\* while nothing of the channel is due
process_timeout ==
    /\ now < MaxTime
    /\ \A e \in cc_heap : e.time > now
    /\ now' = now + 1
    /\ UNCHANGED << cc_delay, cc_heap, cc_eid, cc_store, cc_log, cc_puts >>
    /\ UNCHANGED << system_vars_of_channel, epoch_vars, rlu_vars >>

NextChannel ==
    \/ cc_put
    \/ env_step
    \/ cc_get
    \/ process_timeout

\* CommChannel(env, delay) for a delay of 0 .. MaxDelay
InitChannel ==
    /\ InitSystem({ << "plain", "CRCW", 1, 1 >> })
    /\ DefaultOptions
    /\ now = 0
    /\ cc_delay \in 0 .. MaxDelay
    /\ cc_heap = {}
    /\ cc_eid = 0
    /\ cc_store = << >>
    /\ cc_log = << >>
    /\ cc_puts = 0
    /\ EpochTrackerIdle
    /\ MultiversionIdle
    /\ PolicyIdle
    /\ ControllerIdle

SpecChannel == InitChannel /\ [][NextChannel]_vars

\* The items that have arrived in the store, in the order of their
\* arrival: those the getter took, then those still in the store
Arrived == [i \in 1 .. Len(cc_log) |-> cc_log[i].v] \o cc_store

\* C23: a CommChannel with delay d delivers every item put at time t
\* exactly once, makes it available to get no earlier than t + d, and
\* delivers the items in the order of the puts, puts of the same simulated
\* time included: the arrived items are the first puts in their order, every
\* other item put is on its way exactly once, nothing is left on the way
\* when the heap is empty, and no item is in the store or with the getter
\* before t + d.
C23_ChannelFifoAfterDelay ==
    /\ \A i \in 1 .. Len(Arrived) : Arrived[i].n = i - 1
    /\ \A n \in Len(Arrived) .. (cc_puts - 1) :
           Cardinality({ e \in cc_heap : e.v.n = n }) = 1
    /\ cc_heap = {} => Len(Arrived) = cc_puts
    /\ \A i \in 1 .. Len(Arrived) : now >= Arrived[i].t + cc_delay
    /\ \A i \in 1 .. Len(cc_log) : cc_log[i].at >= cc_log[i].v.t + cc_delay

\* The getter has received two items that were put at the same time on a
\* channel with a delay, and a third, put later, after them
C23_Witness ==
    /\ cc_delay > 0
    /\ Len(cc_log) = MaxPuts
    /\ cc_log[1].v.t = cc_log[2].v.t
    /\ cc_log[3].v.t > cc_log[2].v.t

\* ------------------------------------------------------------ the epoch
\* tracker alone, as test_epoch_tracker.py drives it: reader processes that
\* register and later unregister, writer processes that synchronize on an
\* epoch and wait for the event, and a sequencer that moves on
MaxEpoch == 2
MaxReaders == 2
MaxWriters == 2

Epochs == 1 .. MaxEpoch

\* simpy.Event(self.env) of a writer: the epoch it was made for, whether it
\* was put on the epoch's waiting list, and whether succeed() has been
\* called on it; NoEvent: the writer holds no event
NoEvent == [epoch |-> 0, listed |-> FALSE, triggered |-> FALSE]

QPEvent(epoch_number, listed, triggered) ==
    [epoch |-> epoch_number, listed |-> listed, triggered |-> triggered]

\* The tracker's two dictionaries and the events it handed out
TrackerState ==
    [readers |-> epoch_to_reader_map, waiting |-> waiting_writer_events,
     events |-> qp_ending_event]

\* d[k] = v on a dictionary
DictSet(d, k, v) ==
    [x \in DOMAIN d \cup {k} |-> IF x = k THEN v ELSE d[x]]

\* del d[k]
DictDel(d, k) == [x \in DOMAIN d \ {k} |-> d[x]]

\* list.remove(x): the list without the first occurrence of x
ListRemove(l, x) ==
    LET i == CHOOSE j \in 1 .. Len(l) :
                 l[j] = x /\ \A k \in 1 .. (j - 1) : l[k] # x
    IN  [j \in 1 .. (Len(l) - 1) |-> IF j < i THEN l[j] ELSE l[j + 1]]

ListItems(l) == { l[i] : i \in 1 .. Len(l) }

\* EpochTracker.register_reader: the reader joins the list of the current
\* epoch
register_reader(st, reader_id) ==
    LET epoch == global_ts
    IN  IF epoch \in DOMAIN st.readers
        THEN [st EXCEPT !.readers[epoch] = Append(@, reader_id)]
        ELSE [st EXCEPT !.readers = DictSet(@, epoch, << reader_id >>)]

\* unregister_reader's loop that succeeds only the first waiting event
\* (C24 must reject this)
succeed_waiting_FirstOnly(st, epoch_number) ==
    [w \in DOMAIN st.events |->
        IF w = Head(st.waiting[epoch_number])
        THEN [st.events[w] EXCEPT !.triggered = TRUE]
        ELSE st.events[w]]

\* unregister_reader, for e in self.waiting_writer_events[epoch_number]:
\* e.succeed()
succeed_waiting(st, epoch_number) ==
    [w \in DOMAIN st.events |->
        IF w \in ListItems(st.waiting[epoch_number])
        THEN [st.events[w] EXCEPT !.triggered = TRUE]
        ELSE st.events[w]]

\* The two assertions of EpochTracker.unregister_reader
unregister_asserts(st, epoch_number, reader_id) ==
    /\ epoch_number \in DOMAIN st.readers
    /\ reader_id \in ListItems(st.readers[epoch_number])

\* EpochTracker.unregister_reader after its assertions: the reader leaves
\* the list; when the list is empty the epoch is deleted, the waiting
\* events succeed and the epoch's waiting list is deleted
unregister_reader(st, epoch_number, reader_id) ==
    LET reader_list == ListRemove(st.readers[epoch_number], reader_id)
    IN  IF Len(reader_list) = 0
        THEN IF epoch_number \in DOMAIN st.waiting
             THEN [readers |-> DictDel(st.readers, epoch_number),
                   waiting |-> DictDel(st.waiting, epoch_number),
                   events |-> succeed_waiting(st, epoch_number)]
             ELSE [st EXCEPT !.readers = DictDel(@, epoch_number)]
        ELSE [st EXCEPT !.readers[epoch_number] = reader_list]

\* EpochTracker.writer_synchronize_epoch: a new event, on the waiting list
\* of an epoch that has readers, succeeded at once otherwise
writer_synchronize_epoch(st, epoch_number, w) ==
    IF epoch_number \in DOMAIN st.readers
    THEN [st EXCEPT
            !.waiting = IF epoch_number \in DOMAIN st.waiting
                        THEN [@ EXCEPT ![epoch_number] = Append(@, w)]
                        ELSE DictSet(@, epoch_number, << w >>),
            !.events[w] = QPEvent(epoch_number, TRUE, FALSE)]
    ELSE [st EXCEPT !.events[w] = QPEvent(epoch_number, FALSE, TRUE)]

\* The tracker takes the state st
TrackerBecomes(st) ==
    /\ epoch_to_reader_map' = st.readers
    /\ waiting_writer_events' = st.waiting
    /\ qp_ending_event' = st.events

\* reader_reg_unreg, first half: register on the current epoch
reader_register(r) ==
    /\ rd_epoch[r] = 0
    /\ TrackerBecomes(register_reader(TrackerState, r))
    /\ rd_epoch' = [rd_epoch EXCEPT ![r] = global_ts]
    /\ UNCHANGED << global_ts, failed >>
    /\ UNCHANGED << system_vars_of_epoch, channel_vars, rlu_vars >>

\* reader_reg_unreg, second half: unregister from the epoch it read
reader_unregister(r) ==
    /\ rd_epoch[r] # 0
    /\ IF unregister_asserts(TrackerState, rd_epoch[r], r)
       THEN /\ TrackerBecomes(unregister_reader(TrackerState, rd_epoch[r], r))
            /\ UNCHANGED failed
       ELSE /\ failed' = "not_tracked"
            /\ UNCHANGED << epoch_to_reader_map, waiting_writer_events,
                            qp_ending_event >>
    /\ rd_epoch' = [rd_epoch EXCEPT ![r] = 0]
    /\ UNCHANGED global_ts
    /\ UNCHANGED << system_vars_of_epoch, channel_vars, rlu_vars >>

\* writer, up to its yield: synchronize on an epoch it has observed
writer_synch(w, e) ==
    /\ qp_ending_event[w] = NoEvent
    /\ e \in 1 .. global_ts
    /\ TrackerBecomes(writer_synchronize_epoch(TrackerState, e, w))
    /\ UNCHANGED << global_ts, rd_epoch, failed >>
    /\ UNCHANGED << system_vars_of_epoch, channel_vars, rlu_vars >>

\* writer, after its yield: the event has succeeded and the writer goes on
writer_wakeup(w) ==
    /\ qp_ending_event[w].triggered
    /\ qp_ending_event' = [qp_ending_event EXCEPT ![w] = NoEvent]
    /\ UNCHANGED << global_ts, epoch_to_reader_map, waiting_writer_events,
                    rd_epoch, failed >>
    /\ UNCHANGED << system_vars_of_epoch, channel_vars, rlu_vars >>

\* GlobalSequencer.increment_ts()
increment_ts ==
    /\ global_ts < MaxEpoch
    /\ global_ts' = global_ts + 1
    /\ UNCHANGED << epoch_to_reader_map, waiting_writer_events, rd_epoch,
                    qp_ending_event, failed >>
    /\ UNCHANGED << system_vars_of_epoch, channel_vars, rlu_vars >>

NextEpoch ==
    \/ \E r \in DOMAIN rd_epoch : reader_register(r)
    \/ \E r \in DOMAIN rd_epoch : reader_unregister(r)
    \/ \E w \in DOMAIN qp_ending_event, e \in Epochs : writer_synch(w, e)
    \/ \E w \in DOMAIN qp_ending_event : writer_wakeup(w)
    \/ increment_ts

\* EpochTracker(gs, env) with GlobalSequencer(initial_value=EPOCH_INIT),
\* MaxReaders reader processes and MaxWriters writer processes
InitEpoch ==
    /\ InitSystem({ << "plain", "CRCW", 1, 1 >> })
    /\ DefaultOptions
    /\ ChannelIdle
    /\ MultiversionIdle
    /\ PolicyIdle
    /\ ControllerIdle
    /\ global_ts = 1
    /\ epoch_to_reader_map = [e \in {} |-> << >>]
    /\ waiting_writer_events = [e \in {} |-> << >>]
    /\ rd_epoch = [r \in 0 .. (MaxReaders - 1) |-> 0]
    /\ qp_ending_event = [w \in 0 .. (MaxWriters - 1) |-> NoEvent]

SpecEpoch == InitEpoch /\ [][NextEpoch]_vars

\* The writers whose event waits for the readers of epoch e
WaitingOn(e) ==
    { w \in DOMAIN qp_ending_event :
        qp_ending_event[w] = QPEvent(e, TRUE, FALSE) }

\* What holds of the tracker in every state: an event waits only while its
\* epoch has readers, and it is then on the epoch's waiting list
C24_WaitersHaveReaders ==
    /\ DOMAIN waiting_writer_events \subseteq DOMAIN epoch_to_reader_map
    /\ \A e \in DOMAIN epoch_to_reader_map : Len(epoch_to_reader_map[e]) > 0
    /\ \A e \in Epochs :
           WaitingOn(e) = IF e \in DOMAIN waiting_writer_events
                          THEN ListItems(waiting_writer_events[e])
                          ELSE {}

\* What holds of every step: a new event is triggered at once exactly when
\* its epoch has no reader; an event that waits is triggered in the step,
\* and only in the step, in which the last reader of its epoch unregisters,
\* together with every other event that waits on the epoch, and after the
\* step the epoch is in neither dictionary
C24_TriggerStep ==
    /\ \A w \in DOMAIN qp_ending_event :
           (qp_ending_event[w] = NoEvent /\ qp_ending_event'[w] # NoEvent)
               => (qp_ending_event'[w].triggered
                      <=> qp_ending_event'[w].epoch
                              \notin DOMAIN epoch_to_reader_map)
    /\ \A e \in Epochs :
         LET last_left ==
                 /\ e \in DOMAIN epoch_to_reader_map
                 /\ Len(epoch_to_reader_map[e]) = 1
                 /\ \E r \in DOMAIN rd_epoch :
                        /\ rd_epoch[r] = e
                        /\ rd_epoch'[r] = 0
         IN  /\ last_left =>
                   /\ \A w \in WaitingOn(e) :
                          qp_ending_event'[w] = QPEvent(e, TRUE, TRUE)
                   /\ e \notin DOMAIN epoch_to_reader_map'
                   /\ e \notin DOMAIN waiting_writer_events'
             /\ (\E w \in WaitingOn(e) : qp_ending_event'[w].triggered)
                   => last_left

\* C24: the event writer_synchronize_epoch(e) returns is triggered at once
\* if no reader is registered on e, and otherwise exactly when the last
\* reader registered on e calls unregister_reader; every writer that waits
\* on e is woken at that moment, and e is then tracked neither in the reader
\* map nor in the waiting-writer map.
C24_WriterWokenByLastReader ==
    []C24_WaitersHaveReaders /\ [][C24_TriggerStep]_vars

\* Two writers waited on an epoch that had readers, the readers have left and
\* both events have been triggered
C24_Witness ==
    /\ \A w \in DOMAIN qp_ending_event :
           qp_ending_event[w] = QPEvent(1, TRUE, TRUE)
    /\ \A r \in DOMAIN rd_epoch : rd_epoch[r] = 0
    /\ DOMAIN epoch_to_reader_map = {}

\* ------------------------------------------------------------ multi-version cores
\* MultiversionMICAIndexAccessor: the cores of a run with use_mvcc.  The
\* write path asserts that the disp_policy string is "CREW" or "d-CREW";
\* the experiment builds JBSCREWDispatchPolicy with LoadBalancer for the
\* first and DynJBSCREWDispatchPolicy with DynamicEWLoadBalancer for the
\* second.
MaxDefer == 2

\* What a step of MultiversionMICAIndexAccessor.run reads and writes
RluState ==
    [wpc |-> wpc, cur |-> cur, worker_qs |-> worker_qs, buckets |-> buckets,
     cur_epoch |-> cur_epoch, tracker |-> TrackerState, gen_pc |-> gen_pc,
     killed |-> killed, end_seen |-> end_seen]

\* The state S becomes the state of the cores
ApplyRlu(S) ==
    /\ wpc' = S.wpc
    /\ cur' = S.cur
    /\ worker_qs' = S.worker_qs
    /\ buckets' = S.buckets
    /\ cur_epoch' = S.cur_epoch
    /\ TrackerBecomes(S.tracker)
    /\ gen_pc' = S.gen_pc
    /\ killed' = S.killed
    /\ end_seen' = S.end_seen

\* self.rlu_synchronize(cur_epoch, index) as run() calls it.  The body of
\* rlu_synchronize has yields, so the call creates a generator object; run()
\* neither iterates nor yields it, and nothing of the body is executed: no
\* write timestamp, no writer_synchronize_epoch, no unlock of the bucket, no
\* reset of the deferral counter
rlu_synchronize(S, c, epoch, index) == S

\* run() from "rpc = yield self.in_q.get()" returning rpc, up to the next
\* yield: check_req_end_sim (for the marker endSimGraceful interrupts the
\* generator and kills the core), then the write path (the bucket is marked
\* with core_id + 1) or the read path (the core registers as a reader)
rlu_begin(S, c, rpc) ==
    LET index == hash_req_to_bucket(rpc, NumBuckets)
        T == [S EXCEPT !.cur[c] = rpc, !.cur_epoch[c] = global_ts]
    IN  IF rpc = EndOfMeasurements
        THEN [S EXCEPT !.gen_pc = "dead", !.killed[c] = TRUE,
                       !.end_seen[c] = @ + 1, !.wpc[c] = "done",
                       !.cur[c] = NoReq]
        ELSE IF rpc.w
        THEN LET locked_core_id == S.buckets[index] - 1
                 U == IF locked_core_id > 0
                      THEN rlu_synchronize(T, c, global_ts, index)
                      ELSE T
             IN  [U EXCEPT !.buckets[index] = c + 1, !.wpc[c] = "rlu_write"]
        ELSE [T EXCEPT !.tracker = register_reader(@, c),
                       !.wpc[c] = "rlu_read"]

\* run() at the top of its loop: the core takes the next item of its store,
\* or suspends in get()
rlu_next_req(S, c) ==
    IF ~S.killed[c] /\ Len(S.worker_qs[c]) > 0
    THEN rlu_begin([S EXCEPT !.worker_qs[c] = Tail(@)], c,
                   Head(S.worker_qs[c]))
    ELSE [S EXCEPT !.wpc[c] = IF S.killed[c] THEN "done" ELSE "idle",
                   !.cur[c] = NoReq]

\* run() from "Record times" to the next yield, in the state S the request's
\* path has left: the measurement, putSTime, endSimUnstable, the
\* pull-feedback message, the next request
rlu_record(S, c) ==
    \E total_time \in TotalTimes :
        /\ req_completion_logic(c, cur[c], total_time)
        /\ ApplyRlu(IF FoundUnstable(c, total_time)
                    THEN [S EXCEPT !.gen_pc = IF c = 0 THEN "dead" ELSE @,
                                   !.killed[c] = TRUE, !.wpc[c] = "done",
                                   !.cur[c] = NoReq]
                    ELSE rlu_next_req(S, c))

\* What no step of a multi-version core changes
rlu_frame ==
    << num_queues, lb, policy, max_buckets_tracking, numGenerated, in_q,
       pull_q, queue_length_tracking, queues_including_processing_req,
       blocked_queues, bucket_mappings, jbsq_event, in_q_get_queue, lbpc,
       hand, event_waitlist, updaters, prev_version, upd_finished,
       event_value, use_compaction, batch_map, batched_write, num_events,
       may_be_slow, channel_vars, global_ts, rd_epoch, defer_writes,
       reset_val, setup_vars, stat_vars, ctl_vars >>

\* CommChannel.latency of a worker channel: the delay is over, store.put; a
\* core suspended in in_q.get() receives the item at once
RluChannelDeliver ==
    /\ failed = "none"
    /\ Len(worker_qs_transit) > 0
    /\ worker_qs_transit' = Tail(worker_qs_transit)
    /\ LET c == Head(worker_qs_transit).q
           req == Head(worker_qs_transit).req
       IN  IF wpc[c] = "idle"
           THEN ApplyRlu(rlu_begin(RluState, c, req))
           ELSE ApplyRlu([RluState EXCEPT !.worker_qs[c] = Append(@, req)])
    /\ UNCHANGED << rlu_frame, pull_transit, measurements, lastFiveSTimes,
                    deferral_counter, failed >>

\* DeferralController.check_defer: the counter after the call
check_defer_counter(counter) ==
    IF counter - 1 = 0 THEN reset_val ELSE counter - 1

\* DeferralController.check_defer: what the call returns
check_defer(counter) == counter - 1 = 0

\* The write path after its service time.  With defer_writes the
\* controller decides whether this write synchronizes or is deferred, and
\* a deferred write pays the cleanup cost; a write that is not deferred
\* calls rlu_synchronize and is complete at once
RluWriteServiceEnd(c) ==
    /\ failed = "none"
    /\ wpc[c] = "rlu_write"
    /\ LET index == hash_req_to_bucket(cur[c], NumBuckets)
       IN  IF defer_writes /\ ~check_defer(deferral_counter)
           THEN /\ deferral_counter' = check_defer_counter(deferral_counter)
                /\ ApplyRlu([RluState EXCEPT !.wpc[c] = "rlu_cleanup"])
                /\ UNCHANGED << pull_transit, measurements, lastFiveSTimes >>
           ELSE /\ deferral_counter' =
                       IF defer_writes
                       THEN check_defer_counter(deferral_counter)
                       ELSE deferral_counter
                /\ rlu_record(rlu_synchronize(RluState, c, cur_epoch[c], index), c)
    /\ UNCHANGED << rlu_frame, worker_qs_transit, failed >>

\* The write path of a deferred write after its cleanup cost
RluCleanupEnd(c) ==
    /\ failed = "none"
    /\ wpc[c] = "rlu_cleanup"
    /\ rlu_record(RluState, c)
    /\ UNCHANGED << rlu_frame, worker_qs_transit, deferral_counter, failed >>

\* The read path after its service time: the core unregisters from the
\* epoch it registered on
RluReadServiceEnd(c) ==
    /\ wpc[c] = "rlu_read"
    /\ failed = "none"
    /\ IF unregister_asserts(TrackerState, cur_epoch[c], c)
       THEN /\ rlu_record([RluState EXCEPT
                              !.tracker = unregister_reader(@, cur_epoch[c], c)],
                          c)
            /\ UNCHANGED failed
       ELSE /\ failed' = "not_tracked"
            /\ ApplyRlu(RluState)
            /\ UNCHANGED << pull_transit, measurements, lastFiveSTimes >>
    /\ UNCHANGED << rlu_frame, worker_qs_transit, deferral_counter >>

NextRlu ==
    \/ Generate
    \/ LBPull
    \/ LBGet
    \/ PullDeliver
    \/ RluChannelDeliver
    \/ \E c \in Cores : RluWriteServiceEnd(c)
    \/ \E c \in Cores : RluCleanupEnd(c)
    \/ \E c \in Cores : RluReadServiceEnd(c)

\* << balancer, policy, number of cores, max_buckets_tracking >> of a run
\* with --disp_policy CREW or d-CREW
RluConfigs ==
    ({"plain"} \X {"JBSCREW"} \X CoreCounts \X {1})
      \cup { << "dynamic", "DynJBSCREW", n, MaxCores * DepthLimit >> :
                 n \in CoreCounts }

\* The run with multi-version cores: GlobalSequencer(initial_value=1),
\* EpochTracker(gs, env), DeferralController(defer_count), cores with or
\* without write_defer
InitRlu ==
    /\ InitSystem(RluConfigs)
    /\ DefaultOptions
    /\ ChannelIdle
    /\ PolicyIdle
    /\ ControllerIdle
    /\ global_ts = 1
    /\ epoch_to_reader_map = [e \in {} |-> << >>]
    /\ waiting_writer_events = [e \in {} |-> << >>]
    /\ rd_epoch = << >>
    /\ qp_ending_event = << >>
    /\ cur_epoch = [c \in Cores |-> 0]
    /\ defer_writes \in BOOLEAN
    /\ reset_val \in 1 .. MaxDefer
    /\ deferral_counter = reset_val

SpecRlu == InitRlu /\ [][NextRlu]_vars

\* The step completes the request core c works on: its pull-feedback
\* message is put on the pull channel
RluCompletes(c) ==
    /\ Len(pull_transit') = Len(pull_transit) + 1
    /\ pull_transit'[Len(pull_transit')] = PullFeedbackRequest(c, cur[c])

\* The step starts a write at core c
RluWriteStarts(c) == wpc[c] # "rlu_write" /\ wpc'[c] = "rlu_write"

\* The step completes a write of core c that was not deferred: the write
\* goes from its service time straight to its completion
RluNonDeferredWriteCompletes(c) == wpc[c] = "rlu_write" /\ RluCompletes(c)

C25_WriteStep ==
    \A c \in Cores :
        /\ RluWriteStarts(c) => buckets'[Bucket(cur'[c])] = c + 1
        /\ RluNonDeferredWriteCompletes(c) =>
               /\ cur_epoch[c] \notin DOMAIN epoch_to_reader_map
               /\ buckets'[Bucket(cur[c])] = 0

\* C25: in the multi-version worker a write that is not deferred marks its
\* bucket with its core id + 1 when it starts, does not complete while a
\* reader is registered on the epoch the write observed at its start, and
\* leaves the bucket unlocked (version 0) when it completes.
C25_WriteWaitsForReadersAndUnlocks == [][C25_WriteStep]_vars

\* ------------------------------------------------------------ reads only
\* The generator of a run with write_frac = 0: rollHit(0) never succeeds
GenerateReads == GenerateWith({FALSE})

\* The policies of the read-only comparison: CRCW and the four that treat
\* writes specially
ReadsConfigs ==
    ({"plain"} \X {"CRCW", "EREW", "CREW", "JBSCREW"} \X CoreCounts \X {1})
      \cup ({"index"} \X {"CREW", "JBSCREW"} \X CoreCounts \X {1})
      \cup { << "dynamic", "DynJBSCREW", n, m >> :
                 n \in CoreCounts, m \in 1 .. (MaxCores * DepthLimit) }

InitReads == InitWith(ReadsConfigs) /\ DefaultOptions

\* The steps of a run without writes: no delayed updater is created, no
\* version is ever odd, so AsyncFire, WorkerWake and WriteServiceEnd are
\* never enabled
NextReads ==
    \/ GenerateReads
    \/ LBPull
    \/ LBGet
    \/ \E p \in RunProcs : IdxGet(p)
    \/ \E p \in RunProcs : IdxResume(p)
    \/ IdxPull
    \/ ChannelDeliver
    \/ PullDeliver
    \/ \E c \in Cores : ReadServiceEnd(c)
    \/ \E c \in Cores : ServiceEnd(c)
    \/ \E c \in Cores : Complete(c)

SpecReads == InitReads /\ [][NextReads]_vars

\* A run process of the balancer holds requests back: it waits for a core's
\* queue to get below the depth bound before it takes the next request, or
\* while it holds one
HoldsBack == \E p \in RunProcs : lbpc[p] \in {"blocked", "wait", "woken"}

\* The core CRCWDispatchPolicy.select would return at this point
CRCWChoice == CRCWSelect(NoReq, queue_length_tracking, bucket_mappings).q

\* Every request this step dispatches goes to the core CRCW would choose
DispatchedAsCRCW == \A c \in Cores : NewlyTracked(c) # {} => c = CRCWChoice

\* C26 as stated: without writes every policy sends each request to the
\* core CRCW would choose at that point, and never holds a request back.
C26_Original == [](~HoldsBack) /\ [][DispatchedAsCRCW]_vars

C26_ReadsStep ==
    \A c \in Cores :
        \A r \in NewlyTracked(c) :
            IF policy = "EREW"
            THEN c = hash_req_to_bucket(r, NumBuckets) % num_queues
            ELSE c = CRCWChoice

C26_ReadsHeld ==
    /\ policy \in {"CRCW", "EREW", "CREW"} => ~HoldsBack
    /\ (lb \in {"plain", "dynamic"} /\ HoldsBack) =>
           no_queue_available(queue_length_tracking)

\* C26, amended: without writes CREW sends each request to the core CRCW
\* would choose at that point and never holds a request back; JBSQ-bounded
\* CREW and dynamic-CREW choose that core too for every request they
\* dispatch, but hold requests back (under LoadBalancer and
\* DynamicEWLoadBalancer only while every core's tracked queue has reached
\* the depth bound); EREW never holds a request back and sends each to the
\* core (hash mod B) mod C.
C26_ReadsOnlyAgainstCRCW == []C26_ReadsHeld /\ [][C26_ReadsStep]_vars

\* CREW without writes has spread three reads over two cores
C26_Witness ==
    /\ policy = "CREW"
    /\ num_queues = 2
    /\ Len(queue_length_tracking[0]) = 2
    /\ Len(queue_length_tracking[1]) = 1

\* ------------------------------------------------------------ C28
\* The step completes the request core c works on: req_completion_logic
\* puts its pull-feedback message on the pull channel
Completes(c) ==
    /\ wpc[c] = "overhead"
    /\ Len(pull_transit') = Len(pull_transit) + 1
    /\ pull_transit'[Len(pull_transit')] = PullFeedbackRequest(c, cur[c])

\* The reads of r's bucket that are dispatched to core c and not complete
SameBucketReadsAt(c, r) ==
    { q \in AtCore(c) : ~q.w /\ Bucket(q) = Bucket(r) /\ q # r }

\* Taken from the generator's output and not dispatched yet
Undispatched == Elems(in_q) \cup Held

\* Under CREW the requests of one bucket are dispatched in the order of their
\* ids: when one is dispatched no request of its bucket with a smaller id is
\* still to be dispatched
DispatchedInIdOrder ==
    \A c \in Cores : \A r \in NewlyTracked(c) : \A q \in Undispatched' :
        Bucket(q) = Bucket(r) => q.id > r.id

use_mvcc == DOMAIN cur_epoch # {}

\* A run of the experiment with single-version cores or with multi-version
\* cores
InitWorkers == Init \/ InitRlu

NextWorkers ==
    \/ ~use_mvcc /\ Next
    \/ use_mvcc /\ NextRlu

SpecWorkers == InitWorkers /\ [][NextWorkers]_vars

\* No bucket's version is lower after the step than before it
VersionsDoNotDecrease == \A b \in Bucket_ids : buckets'[b] >= buckets[b]

\* C29 as stated: the version of every bucket never decreases over a run,
\* with the single-version worker and with the multi-version worker.
C29_Original == [][VersionsDoNotDecrease]_vars

\* C29, amended: with the single-version worker the version of every bucket
\* never decreases; with the multi-version worker a bucket's version changes
\* only when a core starts a write to it and is then that core's id + 1,
\* which may be lower than before.
C29_VersionsOfEachWorker ==
    [][ IF use_mvcc
        THEN \A b \in Bucket_ids :
                 buckets'[b] # buckets[b] =>
                     \E c \in Cores : /\ wpc'[c] = "rlu_write"
                                      /\ cur'[c] # cur[c]
                                      /\ Bucket(cur'[c]) = b
                                      /\ buckets'[b] = c + 1
        ELSE VersionsDoNotDecrease ]_vars

\* Single-version cores have completed two writes to one bucket
C29_Witness == ~use_mvcc /\ \E b \in Bucket_ids : buckets[b] = 4

\* ------------------------------------------------------------ C30
\* JBSQDispatchPolicy.__init__ without its check of the bound (C30 must
\* reject this)
JBSQDispatchPolicy_init_Unchecked(bound) == "none"

\* JBSQDispatchPolicy.__init__(env, qs, bound): the exception it raises,
\* "none" if it returns
JBSQDispatchPolicy_init(bound) == IF bound = 0 THEN "ValueError" ELSE "none"

\* The constructor run_exp calls for args.disp_policy: JBSCREWDispatchPolicy
\* and DynJBSCREWDispatchPolicy call super().__init__ before anything else,
\* the key-based policies take no depth
policy_init(bound) ==
    IF IsJBSQFamily THEN JBSQDispatchPolicy_init(bound) ELSE "none"

\* run_exp after it has parsed its arguments and created the environment and
\* the channels: no policy, balancer, generator or core exists yet.  lb,
\* policy, num_queues and max_buckets_tracking are what the arguments ask for
InitSetup ==
    /\ \E cfg \in AllConfigs :
           /\ lb = cfg[1]
           /\ policy = cfg[2]
           /\ num_queues = cfg[3]
           /\ max_buckets_tracking = cfg[4]
    /\ jbsq_depth \in (IF IsJBSQFamily THEN {0, DepthLimit} ELSE {DepthLimit})
    /\ disp_policy = "unbound"
    /\ queue_length_tracking = << >>
    /\ lbpc = [p \in RunProcs |-> "none"]
    /\ in_q_get_queue = << >>
    /\ wpc = [c \in Cores |-> "none"]
    /\ numGenerated = 0
    /\ in_q = << >>
    /\ worker_qs_transit = << >>
    /\ worker_qs = [c \in Cores |-> << >>]
    /\ pull_transit = << >>
    /\ pull_q = << >>
    /\ queues_including_processing_req = [c \in Cores |-> << >>]
    /\ blocked_queues = [b \in Bucket_ids |-> << >>]
    /\ bucket_mappings = << >>
    /\ jbsq_event = 0
    /\ hand = [p \in RunProcs |-> NoReq]
    /\ buckets = [b \in Bucket_ids |-> 0]
    /\ event_waitlist = [b \in Bucket_ids |-> {}]
    /\ updaters = << >>
    /\ cur = [c \in Cores |-> NoReq]
    /\ prev_version = [c \in Cores |-> 0]
    /\ upd_finished = [c \in Cores |-> FALSE]
    /\ event_value = [c \in Cores |-> NoValue]
    /\ batch_map = [c \in Cores |-> [k \in Hashes |-> << >>]]
    /\ batched_write = [c \in Cores |-> FALSE]
    /\ gen_pc = "measure"
    /\ killed = [c \in Cores |-> FALSE]
    /\ measurements = [i \in RequestIds |-> 0]
    /\ lastFiveSTimes = [c \in Cores |-> << >>]
    /\ end_seen = [c \in Cores |-> 0]
    /\ failed = "none"
    /\ ComponentsIdle
    /\ DefaultOptions

\* run_exp from the construction of the policy up to env.run(): the
\* constructor raises, or the policy, the generator, the balancer and the
\* cores are created and their processes wait for the run to start
run_exp_setup ==
    /\ disp_policy = "unbound"
    /\ failed = "none"
    /\ IF policy_init(jbsq_depth) # "none"
       THEN /\ failed' = policy_init(jbsq_depth)
            /\ UNCHANGED << disp_policy, queue_length_tracking, lbpc,
                            in_q_get_queue, wpc >>
       ELSE /\ disp_policy' = policy
            /\ queue_length_tracking' = [c \in Cores |-> << >>]
            /\ lbpc' = [p \in RunProcs |->
                           IF p = 1 \/ lb = "index" THEN "get" ELSE "none"]
            /\ in_q_get_queue' = IF lb = "index" THEN << 1, 2 >> ELSE << 1 >>
            /\ wpc' = [c \in Cores |-> "idle"]
            /\ UNCHANGED failed
    /\ UNCHANGED << num_queues, lb, policy, max_buckets_tracking,
                    numGenerated, in_q, worker_qs_transit, worker_qs,
                    pull_transit, pull_q, queues_including_processing_req,
                    blocked_queues, bucket_mappings, jbsq_event, hand,
                    buckets, event_waitlist, updaters, cur, prev_version,
                    upd_finished, event_value, use_compaction, batch_map,
                    batched_write, num_events, may_be_slow, gen_pc, killed,
                    measurements, lastFiveSTimes, end_seen, jbsq_depth,
                    channel_vars, epoch_vars, rlu_vars, stat_vars, ctl_vars >>

\* env.run() is called after the setup: no process takes a step before the
\* policy exists
NextSetup ==
    \/ run_exp_setup
    \/ disp_policy # "unbound" /\ Next

SpecSetup == InitSetup /\ [][NextSetup]_vars

\* No policy object exists and no process of the simulation has taken a step
NothingBuiltOrRun ==
    /\ disp_policy = "unbound"
    /\ queue_length_tracking = << >>
    /\ \A p \in RunProcs : lbpc[p] = "none"
    /\ \A c \in Cores : wpc[c] = "none" /\ worker_qs[c] = << >>
    /\ numGenerated = 0
    /\ in_q = << >>
    /\ worker_qs_transit = << >>

\* C30: constructing a JBSQ-family policy with depth 0 is rejected with a
\* ValueError at construction: the only step such a run takes is the one
\* that raises it, no simulation process ever runs and no policy object
\* exists afterwards.
C30_DepthZeroRejected ==
    /\ []( (IsJBSQFamily /\ jbsq_depth = 0) =>
              NothingBuiltOrRun /\ failed \in {"none", "ValueError"} )
    /\ [][ (IsJBSQFamily /\ jbsq_depth = 0) =>
              failed = "none" /\ failed' = "ValueError" ]_vars

\* A JBSQ-family constructor was called with depth 0 and has raised
C30_Witness ==
    /\ IsJBSQFamily
    /\ jbsq_depth = 0
    /\ failed = "ValueError"
    /\ disp_policy = "unbound"

\* ------------------------------------------------------------ C31
\* Run process p is suspended in "yield self.jbsq_event" holding a read
HeldOnEvent(p) == lbpc[p] = "wait"

\* Nothing that was dispatched is left to be acknowledged, no run process
\* has been woken and the input channel is empty: pull_queue_updater will
\* trigger no event unless another request arrives
NoAckToCome ==
    /\ failed = "none"
    /\ Outstanding = {}
    /\ in_q = << >>
    /\ \A p \in RunProcs : lbpc[p] # "woken"

\* C31: in the bucket-serialising balancer with a JBSQ-bounded policy, a read
\* held while no queue is available is released by a later acknowledgement
\* and never waits on a free-queue event that nobody will trigger: the event
\* a held run process waits on is the one pull_queue_updater will trigger,
\* and once no acknowledgement is left to come no run process is held.
C31_HeldReadIsReleased ==
    (lb = "index" /\ IsJBSQFamily) =>
        /\ \A p \in RunProcs : HeldOnEvent(p) => jbsq_event = p
        /\ NoAckToCome => \A p \in RunProcs : ~HeldOnEvent(p)

\* ------------------------------------------------------------ C32
\* The policies that give the writes of a bucket to one core at a time: CREW,
\* JBSQ-bounded CREW, and dynamic CREW with max_buckets_tracking =
\* args.cores * args.jbsq_depth, as the experiment builds it
WritesExclusive ==
    \/ policy \in {"CREW", "JBSCREW"}
    \/ policy = "DynJBSCREW" /\ max_buckets_tracking = num_queues * DepthLimit

WakeConfigs == {"plain"} \X {"CRCW", "JBSCREW"} \X {MaxCores} \X {1}

InitWakeFair == InitWith(WakeConfigs) /\ DefaultOptions

\* env.run() processes the next event of the heap as long as there is one
SpecWakeFair == InitWakeFair /\ [][NextEnd]_vars /\ WF_vars(NextEnd)

\* Core c is suspended on the event it got from get_event_for_increment
Spinning(c) == c \in Cores /\ wpc[c] = "spin"

\* An increment of bucket b is pending (a delayed updater has not fired) or
\* will be scheduled (a write to b is in its service period)
IncrementComing(b) ==
    \/ \E i \in 1 .. Len(updaters) : updaters[i].idx_to_update = b
    \/ \E c \in Cores : wpc[c] = "write_service" /\ Bucket(cur[c]) = b

PullProcessed == pull_q # << >> /\ pull_q' = Tail(pull_q)

\* C34: whenever the balancer processes a pull-feedback from core c, the
\* policy's tracking deque and the balancer's shadow deque of c are
\* non-empty and the entry func_executed pops from each (the rightmost) is
\* the request the acknowledgement names as completed; the two deques always hold the same
\* requests in the same order.
C34_PullRemovesCompleted ==
    /\ [](\A c \in Cores :
              queue_length_tracking[c] = queues_including_processing_req[c])
    /\ [][PullProcessed =>
              LET pr == Head(pull_q)
                  c == pr.proc_id
              IN  /\ Len(queue_length_tracking[c]) > 0
                  /\ Len(queues_including_processing_req[c]) > 0
                  /\ pop_item(queue_length_tracking[c]) = pr.req_completed
                  /\ pop_item(queues_including_processing_req[c])
                       = pr.req_completed]_vars

\* ------------------------------------------------------------ C35
\* The requests of a channel's items, the end marker not counted
NumRequests(q) == Cardinality({ i \in 1 .. Len(q) : q[i] # EndOfMeasurements })

\* The requests put on core c's private channel and not delivered yet
NumInTransitTo(c) ==
    Cardinality({ i \in 1 .. Len(worker_qs_transit) :
                      /\ worker_qs_transit[i].q = c
                      /\ worker_qs_transit[i].req # EndOfMeasurements })

\* The requests in transit to core c, waiting in its store or being
\* executed by it
Occupancy(c) == NumInTransitTo(c) + NumRequests(worker_qs[c]) + NumExecuting(c)

\* C35: for every core, at every instant, the tracked queue length is at
\* least the number of requests (the end marker not counted) in transit to,
\* waiting in, or being executed from the core's private channel.
C35_NeverUnderCounts ==
    \A c \in Cores : Len(queue_length_tracking[c]) >= Occupancy(c)

\* The balancer's view lags: core 0 has completed a request whose
\* acknowledgement the balancer has not processed, and the tracked length
\* exceeds the occupancy, while another core's tracked length equals its own
C35_Witness ==
    /\ num_queues = MaxCores
    /\ AcksFrom(0) # {}
    /\ Len(queue_length_tracking[0]) > Occupancy(0)
    /\ Occupancy(1) > 0
    /\ Len(queue_length_tracking[1]) = Occupancy(1)

\* ------------------------------------------------------------ C36
\* A delayed updater fires in this step
UpdaterFires == updaters # << >> /\ updaters' = Tail(updaters)

\* C36: in the asynchronous write protocol the delayed increment that marks
\* the bucket odd has fired by the time the write's service period ends, for
\* every service time the generator can return: the assertion of
\* do_write_process never fails, and the second delayed increment of a
\* write marks the bucket even.
C36_FirstIncrementFiredByServiceEnd ==
    /\ [](failed # "async_update_not_done")
    /\ [][\A c \in Cores :
              (wpc[c] = "write_service" /\ wpc'[c] # "write_service")
                  => upd_finished[c]]_vars
    /\ [][(UpdaterFires /\ ~Head(updaters).first)
              => ~is_odd(buckets'[Head(updaters).idx_to_update])]_vars

\* ------------------------------------------------------------ C37
\* The batch core c is closing or has just extended: the requests batched
\* under the key of the write it holds
BatchOfCur(c) == batch_map[c][cur[c].h]

\* respond_to_batched_writes is at the full write of the batch's final
\* request, or at that request's completion
FinalWrite(c) == batched_write[c] /\ wpc[c] \in {"write_service", "overhead"}

\* The runs with write_frac = 100 and batching enabled: the plain balancer
\* with CRCW, whose writers of one bucket can be on different cores
BatchWritesConfigs == {"plain"} \X {"CRCW"} \X CoreCounts \X {1}

InitBatchWrites ==
    /\ InitWith(BatchWritesConfigs)
    /\ use_compaction = TRUE
    /\ num_events = MaxBatchReqs + 1
    /\ may_be_slow = FALSE

\* No read is generated, so no step of a read is among the workers' steps
NextBatchWrites ==
    \/ GenerateUpTo({TRUE}, MaxBatchReqs)
    \/ LBPull
    \/ LBGet
    \/ ChannelDeliver
    \/ PullDeliver
    \/ AsyncFire
    \/ \E c \in Cores : WorkerWake(c)
    \/ \E c \in Cores : WriteServiceEnd(c)
    \/ \E c \in Cores : Complete(c)
    \/ \E c \in Cores : CompactionEnd(c)
    \/ \E c \in Cores : BatchOverheadEnd(c)

SpecBatchWrites == InitBatchWrites /\ [][NextBatchWrites]_vars

\* When a batch closes, the first n-1 requests are completed without a
\* service period (one latency record and one pull-feedback each, the
\* bucket untouched), do_write_process runs once for the last request (a
\* first and a second delayed updater), which is then recorded and
\* acknowledged once, and the batch is removed from the batch state
BatchCloseCompletes ==
    /\ [](\A i \in RequestIds : measurements[i] <= 1)
    /\ [](\A c \in Cores :
              wpc[c] = "batch_overhead" =>
                  /\ Len(BatchOfCur(c)) >= 2
                  /\ BatchOfCur(c)[Len(BatchOfCur(c))] = cur[c]
                  /\ \A r \in Elems(BatchOfCur(c)) : measurements[r.id] = 0)
    /\ [](\A c \in Cores :
              FinalWrite(c) =>
                  /\ BatchOfCur(c) = << cur[c] >>
                  /\ measurements[cur[c].id] = 0)
    /\ [][\A c \in Cores :
              (wpc[c] = "batch_overhead" /\ batch_map'[c] # batch_map[c]) =>
                  LET r == Head(BatchOfCur(c))
                      b == hash_req_to_bucket(cur[c], NumBuckets)
                  IN  /\ measurements'[r.id] = 1
                      /\ pull_transit'
                           = Append(pull_transit, PullFeedbackRequest(c, r))
                      /\ batch_map'[c][cur[c].h] = Tail(BatchOfCur(c))
                      /\ buckets' = buckets
                      /\ IF Len(BatchOfCur(c)) = 2
                         THEN /\ wpc'[c] = "write_service"
                              /\ updaters' = Append(updaters,
                                                    AsyncIndexUpdater(b, c, TRUE))
                         ELSE /\ wpc'[c] = "batch_overhead"
                              /\ updaters' = updaters]_vars
    /\ [][\A c \in Cores :
              (FinalWrite(c) /\ wpc[c] = "write_service"
                 /\ wpc'[c] # "write_service") =>
                  /\ wpc'[c] = "overhead"
                  /\ updaters' = Append(updaters,
                         AsyncIndexUpdater(hash_req_to_bucket(cur[c], NumBuckets),
                                           c, FALSE))]_vars
    /\ [][\A c \in Cores :
              (FinalWrite(c) /\ wpc[c] = "overhead" /\ wpc'[c] # "overhead") =>
                  /\ measurements'[cur[c].id] = 1
                  /\ pull_transit'
                       = Append(pull_transit, PullFeedbackRequest(c, cur[c]))
                  /\ cur[c] \notin Elems(batch_map'[c][cur[c].h])]_vars

\* The first delayed increment of the final write of a batch marks the
\* bucket odd, the second one even
FinalWriteMarksOddThenEven ==
    [][(UpdaterFires /\ FinalWrite(Head(updaters).core)) =>
           LET u == Head(updaters)
           IN  /\ u.first => is_odd(buckets'[u.idx_to_update])
               /\ (~u.first /\ wpc[u.core] = "overhead")
                      => ~is_odd(buckets'[u.idx_to_update])]_vars

\* C37: when a batch of n writes to a key closes, the first n-1 requests are
\* completed after only the compaction cost, exactly one full write
\* protocol (one odd-marking and one even-marking increment of the bucket)
\* is performed for the last request, each of the n requests gets exactly
\* one latency record and one pull-feedback, and the batch's entries are
\* removed from the worker's batch state.
C37_BatchClose == BatchCloseCompletes /\ FinalWriteMarksOddThenEven

\* ------------------------------------------------------------ C38
\* The write core c holds after this step opens or extends a batch in it
BatchedNow(c) ==
    /\ wpc'[c] \in {"compaction_new", "compaction_absorb"}
    /\ wpc[c] \notin {"compaction_new", "compaction_absorb"} \/ cur'[c] # cur[c]

\* Core c's input channel holds a write to the key after this step, the
\* request the core has taken from it not counted
WriteToKeyQueued(c, key) ==
    \E e \in Elems(worker_qs'[c]) : e # EndOfMeasurements /\ e.w /\ e.h = key

\* C38: with batching enabled, a write opens or extends a batch only when
\* the worker's input channel contains another write to the same key at
\* that moment; a queued read to the same key, or an empty channel, never
\* causes a write to be batched.
C38_BatchedOnlyOnQueuedWrite ==
    [][\A c \in Cores : BatchedNow(c) => WriteToKeyQueued(c, cur'[c].h)]_vars

\* The part of C38 about opening a batch
OpensOnlyOnQueuedWrite ==
    [][\A c \in Cores :
           (BatchedNow(c) /\ wpc'[c] = "compaction_new")
               => WriteToKeyQueued(c, cur'[c].h)]_vars

\* ---------------------------------------------------------------------
\* C39: select of the JBSQ family, called on a policy object alone, with
\* the policy's statistics

\* update_bucket_load
update_bucket_load(st, req) ==
    [st EXCEPT !.bucket_load_counter[hash_req_to_bucket(req, NumBuckets)] =
                   @ + 1]

\* The counter update_metadata increments for a dispatch decision, and the
\* update_bucket_load that ends it
update_metadata(st, req, decision) ==
    LET counted ==
            CASE decision = "LB_READ" ->
                     [st EXCEPT !.balanced_reads = @ + 1]
              [] decision = "LIN_READ" ->
                     [st EXCEPT !.linearized_reads = @ + 1]
              [] decision = "FOLLOWING_EXCL_WRITE" ->
                     [st EXCEPT !.excl_writes = @ + 1]
              [] decision = "NEW_EXCL_WRITE" ->
                     [st EXCEPT !.balanced_writes = @ + 1]
    IN  update_bucket_load(counted, req)

\* DynJBSCREWDispatchPolicy.select that counts a read as balanced before it
\* looks at the depth of the shortest queue (C39 must reject this)
DynJBSCREWStats_CountsRefused(req, qlt, bm, st) ==
    IF req.w
    THEN IF exclusive_access_outstanding(req, bm)
         THEN update_metadata(st, req, "FOLLOWING_EXCL_WRITE")
         ELSE IF find_shortest_q(qlt).len < DepthLimit
              THEN update_metadata(st, req, "NEW_EXCL_WRITE")
              ELSE st
    ELSE update_metadata(st, req, "LB_READ")

\* The statistics after DynJBSCREWDispatchPolicy.select: update_metadata is
\* called on the paths that dispatch, with the decision of the path
DynJBSCREWStats(req, qlt, bm, st) ==
    IF exclusive_access_outstanding(req, bm)
    THEN IF req.w
         THEN update_metadata(st, req, "FOLLOWING_EXCL_WRITE")
         ELSE IF find_shortest_q(qlt).len < DepthLimit
              THEN update_metadata(st, req, "LB_READ")
              ELSE st
    ELSE IF find_shortest_q(qlt).len < DepthLimit
         THEN IF req.w
              THEN update_metadata(st, req, "NEW_EXCL_WRITE")
              ELSE update_metadata(st, req, "LB_READ")
         ELSE st

\* The statistics after JBSCREWDispatchPolicy.select
JBSCREWStats(req, qlt, st) ==
    IF req.w \/ find_shortest_q(qlt).len < DepthLimit
    THEN update_bucket_load(st, req)
    ELSE st

\* The statistics after select; JBSQDispatchPolicy.select keeps none
select_stats(req, qlt, bm, st) ==
    CASE policy = "DynJBSCREW" -> DynJBSCREWStats(req, qlt, bm, st)
      [] policy = "JBSCREW" -> JBSCREWStats(req, qlt, st)
      [] OTHER -> st

\* The calls of select made on one policy object
MaxSelects == 4

\* The requests dispatched so far, as the statistics count them
RECURSIVE LoadBelow(_, _)
LoadBelow(st, b) ==
    IF b = 0 THEN 0
    ELSE st.bucket_load_counter[b - 1] + LoadBelow(st, b - 1)

Dispatched(st) == LoadBelow(st, NumBuckets)

\* What a policy object driven alone never touches
policy_alone_vars ==
    << num_queues, lb, policy, max_buckets_tracking, numGenerated, in_q,
       worker_qs_transit, worker_qs, pull_transit, pull_q,
       queues_including_processing_req, blocked_queues, jbsq_event,
       in_q_get_queue, lbpc, hand, buckets, event_waitlist, updaters, wpc,
       cur, prev_version, upd_finished, event_value, use_compaction,
       batch_map, batched_write, num_events, may_be_slow, gen_pc, killed,
       measurements, lastFiveSTimes, end_seen, channel_vars, epoch_vars,
       rlu_vars, setup_vars, ctl_vars >>

\* policy.select(req), whatever it returns
policy_select(req) ==
    /\ failed = "none"
    /\ \A c \in Cores : Len(queue_length_tracking[c]) < MaxTracked
    /\ Dispatched(stats) < MaxSelects
    /\ LET r == select(req, queue_length_tracking, bucket_mappings)
       IN  /\ queue_length_tracking' = r.qlt
           /\ bucket_mappings' = r.bm
           /\ select_ret' = << r.q >>
    /\ stats' = select_stats(req, queue_length_tracking, bucket_mappings,
                             stats)
    /\ UNCHANGED << policy_alone_vars, failed >>

\* policy.func_executed(c_id, f_type) for a core that has a tracked
\* request, followed for a write of the dynamic policy by
\* write_req_finished, as DynamicEWLoadBalancer.update_pulls calls them
policy_func_executed(c_id) ==
    /\ failed = "none"
    /\ Len(queue_length_tracking[c_id]) > 0
    /\ queue_length_tracking' =
           [queue_length_tracking EXCEPT ![c_id] = pop_rest(@)]
    /\ LET done == pop_item(queue_length_tracking[c_id])
       IN  IF policy = "DynJBSCREW" /\ done.w
           THEN LET f == write_req_finished(
                             bucket_mappings,
                             hash_req_to_bucket(done, NumBuckets), c_id)
                IN  /\ bucket_mappings' = f.bm
                    /\ failed' = f.failed
           ELSE UNCHANGED << bucket_mappings, failed >>
    /\ UNCHANGED << policy_alone_vars, stat_vars >>

NextPolicy ==
    \/ \E req \in TestRequests : policy_select(req)
    \/ \E c \in Cores : policy_func_executed(c)

\* The three policies of the family, over 1 .. MaxCores queues
FamilyConfigs ==
    ({"plain"} \X {"JBSQ", "JBSCREW"} \X CoreCounts \X {1})
      \cup { << "dynamic", "DynJBSCREW", n, m >> :
                 n \in CoreCounts, m \in 1 .. (MaxCores * DepthLimit) }

InitPolicy ==
    /\ InitWith(FamilyConfigs)
    /\ DefaultOptions

SpecPolicy == InitPolicy /\ [][NextPolicy]_vars

\* The step is a select that returns -1
SelectRefuses ==
    /\ \E req \in TestRequests : policy_select(req)
    /\ select_ret' = << -1 >>

\* C39: a select of JBSQ, bounded CREW or dynamic CREW that returns -1
\* leaves the tracking deques, the exclusive-bucket map with its counts of
\* outstanding writes, and the dispatch statistics as they were
C39_RefusalChangesNothing ==
    [][SelectRefuses =>
           UNCHANGED << queue_length_tracking, bucket_mappings, stats >>]_vars

\* The dynamic policy has refused a request while a bucket is owned with two
\* writes outstanding, every queue is at the depth limit and reads and
\* writes have been counted
C39_Witness ==
    /\ policy = "DynJBSCREW" /\ num_queues = MaxCores
    /\ select_ret = << -1 >>
    /\ no_queue_available(queue_length_tracking)
    /\ \E i \in 1 .. Len(bucket_mappings) : bucket_mappings[i].wrs = 2
    /\ stats.excl_writes > 0 /\ stats.balanced_reads > 0

\* ---------------------------------------------------------------------
\* C40: a DeferralController alone, check_defer and reset_defer called on
\* it directly

\* The largest initial_value a controller is constructed with
MaxInitial == 4

\* The check_defer calls made after a reset or the construction
MaxChecks == 6

\* The argument of reset_defer: -1 is the default, the call without one
ResetArgs == {-1} \cup (1 .. MaxInitial)

\* DeferralController.reset_defer: the counter after the call
reset_defer(counter_value) ==
    IF counter_value # -1 THEN reset_val ELSE counter_value

\* What a DeferralController driven alone never touches
controller_alone_vars ==
    << num_queues, lb, policy, max_buckets_tracking, numGenerated, in_q,
       worker_qs_transit, worker_qs, pull_transit, pull_q,
       queue_length_tracking, queues_including_processing_req,
       blocked_queues, bucket_mappings, jbsq_event, in_q_get_queue, lbpc,
       hand, buckets, event_waitlist, updaters, wpc, cur, prev_version,
       upd_finished, event_value, use_compaction, batch_map, batched_write,
       num_events, may_be_slow, gen_pc, killed, measurements,
       lastFiveSTimes, end_seen, channel_vars, epoch_vars, cur_epoch,
       defer_writes, reset_val, setup_vars, stat_vars, failed >>

\* def_ctrl.check_defer(), its return value noted
ctl_check_defer ==
    /\ Len(defer_calls.rets) < MaxChecks
    /\ deferral_counter' = check_defer_counter(deferral_counter)
    /\ defer_calls' =
           [defer_calls EXCEPT !.rets = Append(@, check_defer(deferral_counter))]
    /\ UNCHANGED controller_alone_vars

\* def_ctrl.reset_defer() or def_ctrl.reset_defer(counter_value)
ctl_reset_defer(counter_value) ==
    /\ deferral_counter' = reset_defer(counter_value)
    /\ defer_calls' = [reset |-> TRUE, arg |-> counter_value, rets |-> << >>]
    /\ UNCHANGED controller_alone_vars

NextDefer ==
    \/ ctl_check_defer
    \/ \E counter_value \in ResetArgs : ctl_reset_defer(counter_value)

\* DeferralController(initial_value)
InitDefer ==
    /\ InitSystem({ << "plain", "CRCW", 1, 1 >> })
    /\ DefaultOptions
    /\ ChannelIdle
    /\ EpochTrackerIdle
    /\ PolicyIdle
    /\ ControllerIdle
    /\ cur_epoch = << >>
    /\ defer_writes = FALSE
    /\ reset_val \in 1 .. MaxInitial
    /\ deferral_counter = reset_val

SpecDefer == InitDefer /\ [][NextDefer]_vars

\* The value a reset is to leave in the counter: the initial value for the
\* call without argument, the argument otherwise
ResetTarget == IF defer_calls.arg = -1 THEN reset_val ELSE defer_calls.arg

\* Of the check_defer calls made since the last reset, up to the n-th,
\* exactly the n-th has returned true
TrueOnExactly(n) ==
    \A i \in 1 .. Len(defer_calls.rets) :
        i <= n => (defer_calls.rets[i] <=> i = n)

\* C40: after reset_defer the counter holds the initial value N, or the
\* explicit argument, and check_defer returns true again on exactly that
\* many calls later
C40_ResetDefer ==
    defer_calls.reset =>
        /\ defer_calls.rets = << >> => deferral_counter = ResetTarget
        /\ TrueOnExactly(ResetTarget)

====
